---- MODULE Spec2Model ----
(***************************************************************************)
(* A model of the openchess game session engine: the Redis-backed room     *)
(* record (lib/game-session), the WebSocket frame handlers (lib/ws) and    *)
(* the sweeper (lib/redis-sweep), for one room id.                         *)
(*                                                                         *)
(* Every handler is an async function; each `await` on a store call is a   *)
(* point where another handler may run, so a handler is a sequence of      *)
(* steps (one per store call that matters) over a per-invocation record.   *)
(* A Lua script (redis.eval) is one atomic step.                           *)
(***************************************************************************)
EXTENDS Integers, Sequences, FiniteSets, TLC

VARIABLES
    game,        \* hash game:{id}            (GameSession fields)
    seats,       \* hash game:{id}:seats      (SeatsInfo)
    moves,       \* list game:{id}:moves      (GameMove entries)
    drawOffer,   \* string game:{id}:drawOffer      ("" = absent)
    rematchOffer,\* string game:{id}:rematchOffer   ("" = absent)
    newRoom,     \* the hashes of the room createRematchGame made for a rematch
    abandonment, \* string game:{id}:abandonment    (AbandonmentInfo or NoTimer)
    archive,     \* rows of the archive table for this id
    now,         \* Date.now()
    calls,       \* in-flight joinGame calls (HTTP join route)
    maker,       \* position of the createGame / createRematchGame call
    hs,          \* in-flight WebSocket frame handlers
    conn,        \* which peers' sockets are open
    out,         \* frames emitted by the last step
    hist,        \* history: counters the claims speak about
    ratelimit,   \* string ratelimit:{action}:{identifier} and its expiry
    heartbeat    \* ClientData.isAlive of each peer's socket, and its ping

vars == <<game, seats, moves, drawOffer, rematchOffer, newRoom, abandonment,
          archive, now, calls, maker, hs, conn, out, hist, ratelimit, heartbeat>>

-----------------------------------------------------------------------------
(* Bounds of the model *)

MaxCallers == 3
MaxTime == 3
MaxInitialMs == 2
MaxIncrementMs == 1

-----------------------------------------------------------------------------
(* Chess rules oracle (chess.js), abstracted: a position carries the side   *)
(* to move, the ply count (the FEN move counters), the last move played     *)
(* (the piece placement) and whether the game is over.  A SAN names the     *)
(* colour that may play it; it is legal only for the side to move.          *)

Other(c) == IF c = "white" THEN "black" ELSE "white"

INITIAL_FEN == [turn |-> "white", ply |-> 0, board |-> "start", over |-> "none"]

San == [by : {"white", "black"}, id : {"a", "mate", "draw"}]

Legal(fen, san) == fen.over = "none" /\ san.by = fen.turn

ChessMove(fen, san) ==
    [turn |-> Other(fen.turn), ply |-> fen.ply + 1, board |-> san.id,
     over |-> IF san.id = "mate" THEN "mate"
              ELSE IF san.id = "draw" THEN "draw" ELSE "none"]

-----------------------------------------------------------------------------
(* Store records *)

NoGame ==
    [status |-> "NONE", result |-> "", currentFen |-> INITIAL_FEN,
     timeInitialMs |-> 0, timeIncrementMs |-> 0,
     whiteTimeMs |-> 0, blackTimeMs |-> 0, lastMoveAt |-> 0,
     creatorColor |-> "white", createdAt |-> 0]

NoSeats ==
    [whiteToken |-> "", blackToken |-> "",
     whiteConnected |-> FALSE, blackConnected |-> FALSE]

NoTimer == [disconnectedColor |-> "", deadline |-> 0]

\* the rate-limit key is absent
NoRate == [count |-> 0, expiresAt |-> 0]

\* ClientData.isAlive as the connection handler sets it: no ping awaits its
\* pong, terminate() has not been called, no tick has passed
ClientAlive == [isAlive |-> TRUE, ping |-> FALSE, terminated |-> FALSE, ticks |-> 0]

\* no room has been made for a rematch
NoRoom == [game |-> NoGame, seats |-> NoSeats]

\* getGame: null when the hash has no status; otherwise the parsed hash
\* joined with the seats' tokens.
getGame ==
    IF game.status = "NONE" THEN [exists |-> FALSE, status |-> "NONE",
                                  whiteToken |-> "", blackToken |-> "",
                                  g |-> NoGame]
    ELSE [exists |-> TRUE, status |-> game.status,
          whiteToken |-> seats.whiteToken, blackToken |-> seats.blackToken,
          g |-> game]

-----------------------------------------------------------------------------
(* Room creation and the HTTP join route: createGame, createRematchGame,    *)
(* joinGame.  The room id is random and is returned by the creating call,   *)
(* so joinGame calls start only once that call has returned.                *)

Callers == 1..MaxCallers

JoinerToken(c) == "joiner" \o ToString(c)

IdleCall == [pc |-> "idle", status |-> "NONE", creatorColor |-> "white",
             swap |-> FALSE, ret |-> "none"]

TimeControls ==
    {tc \in [initial : {0, MaxInitialMs}, increment : {0, MaxIncrementMs}] :
        tc.initial = 0 => tc.increment = 0}

\* createGame, first store call: HSET game:{id} session
createGameSession(tc, color, nowMs) ==
    [status |-> "WAITING", result |-> "", currentFen |-> INITIAL_FEN,
     timeInitialMs |-> tc.initial, timeIncrementMs |-> tc.increment,
     whiteTimeMs |-> 0, blackTimeMs |-> 0, lastMoveAt |-> 0,
     creatorColor |-> color, createdAt |-> nowMs]

\* createGame, second store call: HSET game:{id}:seats seats
createGameSeats ==
    [whiteToken |-> "creator", blackToken |-> "",
     whiteConnected |-> FALSE, blackConnected |-> FALSE]

CreateGameSession ==
    /\ maker = [kind |-> "none", pc |-> "start"]
    /\ \E tc \in TimeControls, color \in {"white", "black", "random"} :
         game' = createGameSession(tc, color, now)
    /\ maker' = [kind |-> "createGame", pc |-> "seats"]
    /\ out' = {}
    /\ UNCHANGED <<ratelimit, heartbeat, rematchOffer, newRoom, seats, moves, drawOffer, abandonment, archive, now, calls,
                   hs, conn, hist>>

CreateGameSeats ==
    /\ maker = [kind |-> "createGame", pc |-> "seats"]
    /\ seats' = createGameSeats
    /\ maker' = [maker EXCEPT !.pc = "done"]
    /\ out' = {}
    /\ UNCHANGED <<ratelimit, heartbeat, rematchOffer, newRoom, game, moves, drawOffer, abandonment, archive, now, calls,
                   hs, conn, hist>>

\* createRematchGame, first store call: HSET game:{id} session
createRematchSession(tc, nowMs) ==
    [status |-> "IN_PROGRESS", result |-> "", currentFen |-> INITIAL_FEN,
     timeInitialMs |-> tc.initial, timeIncrementMs |-> tc.increment,
     whiteTimeMs |-> tc.initial, blackTimeMs |-> tc.initial,
     lastMoveAt |-> IF tc.initial > 0 THEN nowMs ELSE 0,
     creatorColor |-> "white", createdAt |-> nowMs]

\* createRematchGame, second store call: HSET game:{id}:seats seats
createRematchSeats ==
    [whiteToken |-> "newWhite", blackToken |-> "newBlack",
     whiteConnected |-> TRUE, blackConnected |-> TRUE]

CreateRematchSession ==
    /\ maker = [kind |-> "none", pc |-> "start"]
    /\ \E tc \in TimeControls : game' = createRematchSession(tc, now)
    /\ maker' = [kind |-> "createRematchGame", pc |-> "seats"]
    /\ out' = {}
    /\ UNCHANGED <<ratelimit, heartbeat, rematchOffer, newRoom, seats, moves, drawOffer, abandonment, archive, now, calls,
                   hs, conn, hist>>

CreateRematchSeats ==
    /\ maker = [kind |-> "createRematchGame", pc |-> "seats"]
    /\ seats' = createRematchSeats
    /\ maker' = [maker EXCEPT !.pc = "done"]
    /\ hist' = [hist EXCEPT !.blackWrites = @ + 1]
    /\ out' = {}
    /\ UNCHANGED <<ratelimit, heartbeat, rematchOffer, newRoom, game, moves, drawOffer, abandonment, archive, now, calls,
                   hs, conn>>

\* joinGame -> getGame: HGETALL game:{id}
JoinGetGame(c) ==
    /\ maker.pc = "done"
    /\ calls[c].pc = "idle"
    /\ calls' = [calls EXCEPT ![c] =
         IF game.status = "NONE"
         THEN [@ EXCEPT !.pc = "done", !.ret = "null"]
         ELSE [@ EXCEPT !.pc = "seats", !.status = game.status,
                        !.creatorColor = game.creatorColor]]
    /\ out' = {}
    /\ UNCHANGED <<ratelimit, heartbeat, rematchOffer, newRoom, game, seats, moves, drawOffer, abandonment, archive, now,
                   maker, hs, conn, hist>>

\* joinGame -> getGame -> getSeats: HGETALL game:{id}:seats, then the
\* early return and the resolution of creatorColor (coin flip for random).
JoinGetSeats(c) ==
    /\ calls[c].pc = "seats"
    /\ IF calls[c].status # "WAITING" \/ seats.blackToken # ""
       THEN calls' = [calls EXCEPT ![c] = [@ EXCEPT !.pc = "done", !.ret = "null"]]
       ELSE \E resolved \in (IF calls[c].creatorColor = "random"
                             THEN {"white", "black"}
                             ELSE {calls[c].creatorColor}) :
              calls' = [calls EXCEPT ![c] =
                          [@ EXCEPT !.pc = "eval", !.swap = (resolved = "black")]]
    /\ out' = {}
    /\ UNCHANGED <<ratelimit, heartbeat, rematchOffer, newRoom, game, seats, moves, drawOffer, abandonment, archive, now,
                   maker, hs, conn, hist>>

\* the join script's test: status = WAITING and blackToken empty
joinScriptGuardNoRecheck == TRUE

joinScriptGuard == game.status = "WAITING" /\ seats.blackToken = ""

\* the join script's writes to game:{id}
joinScriptGame(nowMs) ==
    IF game.timeInitialMs > 0
    THEN [game EXCEPT !.status = "IN_PROGRESS",
                      !.whiteTimeMs = game.timeInitialMs,
                      !.blackTimeMs = game.timeInitialMs,
                      !.lastMoveAt = nowMs]
    ELSE [game EXCEPT !.status = "IN_PROGRESS"]

\* the join script's writes to game:{id}:seats
joinScriptSeats(joinerToken, swapColors) ==
    IF swapColors
    THEN [whiteToken |-> joinerToken, whiteConnected |-> TRUE,
          blackToken |-> seats.whiteToken, blackConnected |-> FALSE]
    ELSE [seats EXCEPT !.blackToken = joinerToken, !.blackConnected = TRUE]

\* joinGame: redis.eval(script) and the return value
JoinEval(c) ==
    /\ calls[c].pc = "eval"
    /\ IF joinScriptGuard
       THEN /\ game' = joinScriptGame(now)
            /\ seats' = joinScriptSeats(JoinerToken(c), calls[c].swap)
            /\ hist' = [hist EXCEPT !.blackWrites = @ + 1]
            /\ calls' = [calls EXCEPT ![c] =
                 [@ EXCEPT !.pc = "done",
                           !.ret = IF calls[c].swap THEN "white" ELSE "black"]]
       ELSE /\ calls' = [calls EXCEPT ![c] = [@ EXCEPT !.pc = "done", !.ret = "null"]]
            /\ UNCHANGED <<game, seats, hist>>
    /\ out' = {}
    /\ UNCHANGED <<ratelimit, heartbeat, rematchOffer, newRoom, moves, drawOffer, abandonment, archive, now, maker, hs, conn>>

Tick ==
    /\ now < MaxTime
    /\ now' = now + 1
    /\ out' = {}
    /\ UNCHANGED <<ratelimit, heartbeat, rematchOffer, newRoom, game, seats, moves, drawOffer, abandonment, archive,
                   calls, maker, hs, conn, hist>>

NoHist == [blackWrites |-> 0, accepted |-> 0, frames |-> 0]

InitLife ==
    /\ game = NoGame
    /\ seats = NoSeats
    /\ moves = <<>>
    /\ drawOffer = ""
    /\ rematchOffer = ""
    /\ newRoom = NoRoom
    /\ abandonment = NoTimer
    /\ archive = <<>>
    /\ now = 1
    /\ calls = [c \in Callers |-> IdleCall]
    /\ maker = [kind |-> "none", pc |-> "start"]
    /\ hs = <<>>
    /\ conn = <<>>
    /\ out = {}
    /\ hist = NoHist
    /\ ratelimit = NoRate
    /\ heartbeat = <<>>

NextLife ==
    \/ CreateGameSession
    \/ CreateGameSeats
    \/ CreateRematchSession
    \/ CreateRematchSeats
    \/ \E c \in Callers : JoinGetGame(c)
    \/ \E c \in Callers : JoinGetSeats(c)
    \/ \E c \in Callers : JoinEval(c)
    \/ Tick

SpecLife == InitLife /\ [][NextLife]_vars

-----------------------------------------------------------------------------
(* The WebSocket server on a room that has been created and joined: the     *)
(* creator holds the white seat, the joiner the black seat, a third peer    *)
(* holds no seat.  A frame handler runs in a slot of hs; ws.on("message")   *)
(* does not wait for the previous handler, so slots run concurrently,       *)
(* also for frames of one connection.                                       *)

MaxHandlers == 2
MaxMoves == 2
MaxFrames == 4

\* timeouts in ticks of the model's clock
ABANDONMENT_TIMEOUT_SECONDS == 2
CLAIM_WIN_TIMEOUT_SECONDS == 1
ABANDONMENT_KEY_MARGIN == 1

Handlers == 1..MaxHandlers
Peers == {"W", "B", "S"}
Colors == {"white", "black"}
Terminal == {"FINISHED", "ABANDONED"}

\* the cookie chess_token_{gameId} of each peer
PeerToken(p) == IF p = "W" THEN "creator" ELSE IF p = "B" THEN "joiner1" ELSE ""

NoSan == [by |-> "none", id |-> "none"]

IdleH == [pc |-> "idle", kind |-> "none", peer |-> "none", color |-> "none",
          fen |-> INITIAL_FEN, san |-> NoSan, n |-> 0, t |-> 0, res |-> "",
          timed |-> FALSE, flag |-> FALSE, snap |-> NoGame,
          whiteToken |-> "", blackToken |-> "", sent |-> 0]

\* conn[p].state follows the socket of peer p and its ClientData.gameId:
\*   "closed"    no open socket, and none left in rooms.get(gameId)
\*   "open"      open, data.gameId is null (no join frame handled yet)
\*   "joined"    open, data.gameId is this room, member of rooms.get(gameId)
\*   "moved"     open, data.gameId is another room, still in rooms.get(gameId)
\*   "elsewhere" open, data.gameId is another room, not in rooms.get(gameId)
\*   "stale"     closed, but the socket is still in rooms.get(gameId)
\* conn[p].color is ClientData.playerColor.

\* rooms.get(gameId)
RoomSet == {p \in Peers : conn[p].state \in {"joined", "moved", "stale"}}

\* members of rooms.get(gameId) whose socket is OPEN
Room == {p \in Peers : conn[p].state \in {"joined", "moved"}}

\* the broadcasts among the frames of a step: the types sent to a peer other
\* than the sender (hs[h].sent counts those a handler in flight has emitted)
broadcasts(frames, sender) == Cardinality({f.type : f \in {e \in frames : e.to # sender}})

broadcastAll(type) == {[type |-> type, to |-> p] : p \in Room}
broadcastToOthers(type, sender) == {[type |-> type, to |-> p] : p \in Room \ {sender}}
sendError(p) == {[type |-> "error", to |-> p]}

\* token === game.whiteToken / game.blackToken, on the record getGame returned
tokenColor(token, g) ==
    IF token = g.whiteToken THEN "white"
    ELSE IF token = g.blackToken THEN "black"
    ELSE "none"

WinnerIfLoses(color) == IF color = "white" THEN "BLACK_WINS" ELSE "WHITE_WINS"

\* (variant: the status is written without the result)
setGameResultStatusOnly(g, result) == [g EXCEPT !.status = "FINISHED"]

setGameResult(g, result) == [g EXCEPT !.status = "FINISHED", !.result = result]

setGameAbandoned(g, result) == [g EXCEPT !.status = "ABANDONED", !.result = result]

\* archiveGame: no-op unless the record is FINISHED or ABANDONED and no row
\* with this id exists
archiveGame ==
    IF game.status \in Terminal /\ archive = <<>>
    THEN <<[status |-> game.status, result |-> game.result, moves |-> Len(moves)]>>
    ELSE archive

Idle(h) == hs' = [hs EXCEPT ![h] = IdleH]

\* a frame, a close event or a sweeper pass starts in the first free slot
Free(h) ==
    /\ hs[h].pc = "idle"
    /\ \A k \in Handlers : k < h => hs[k].pc # "idle"
    /\ hist.frames < MaxFrames

Goto(h, pc) == hs' = [hs EXCEPT ![h] = [@ EXCEPT !.pc = pc]]

-----------------------------------------------------------------------------
(* checkAndProcessAbandonment, as called by handleMove, handleJoin and the  *)
(* sweeper                                                                  *)

\* getAbandonmentInfo: the key is gone once its EX has run out
getAbandonmentInfo ==
    IF abandonment # NoTimer /\ now >= abandonment.deadline + ABANDONMENT_KEY_MARGIN
    THEN NoTimer ELSE abandonment

\* the test Date.now() >= info.deadline
abandonmentDue == getAbandonmentInfo # NoTimer /\ now >= getAbandonmentInfo.deadline

AbandonmentResult == WinnerIfLoses(getAbandonmentInfo.disconnectedColor)

\* setGameAbandoned(gameId, result)
AbnSet(h) ==
    /\ hs[h].pc = "abn_set"
    /\ game' = setGameAbandoned(game, hs[h].res)
    /\ Goto(h, "abn_clear")
    /\ out' = {}
    /\ UNCHANGED <<ratelimit, heartbeat, rematchOffer, newRoom, seats, moves, drawOffer, abandonment, archive, now, calls,
                   maker, conn, hist>>

\* clearAbandonmentTimer(gameId)
AbnClear(h) ==
    /\ hs[h].pc = "abn_clear"
    /\ abandonment' = NoTimer
    /\ Goto(h, "abn_archive")
    /\ out' = {}
    /\ UNCHANGED <<ratelimit, heartbeat, rematchOffer, newRoom, game, seats, moves, drawOffer, archive, now, calls,
                   maker, conn, hist>>

\* archiveGame(gameId), then the caller's continuation: handleMove
\* broadcasts game_abandoned and returns; handleJoin broadcasts it (if the
\* record still exists) and goes on; the sweeper counts it.
AbnArchive(h) ==
    /\ hs[h].pc = "abn_archive"
    /\ archive' = archiveGame
    /\ IF hs[h].kind = "move"
       THEN Idle(h) /\ out' = broadcastAll("game_abandoned")
       ELSE IF hs[h].kind = "join"
       THEN /\ out' = IF game.status # "NONE" THEN broadcastAll("game_abandoned") ELSE {}
            /\ hs' = [hs EXCEPT ![h] =
                 [@ EXCEPT !.pc = "j_timer",
                           !.sent = @ + broadcasts(out', hs[h].peer)]]
       ELSE Idle(h) /\ out' = {}
    /\ UNCHANGED <<ratelimit, heartbeat, rematchOffer, newRoom, game, seats, moves, drawOffer, abandonment, now, calls,
                   maker, conn, hist>>

-----------------------------------------------------------------------------
(* setGameResult + clearDrawOffer + archiveGame + broadcast: the tail of    *)
(* every handler that finishes a game                                       *)

FinSet(h) ==
    /\ hs[h].pc = "fin_set"
    /\ game' = setGameResult(game, hs[h].res)
    /\ Goto(h, IF hs[h].kind \in {"resign", "draw_accept"}
               THEN "fin_cleardraw" ELSE "fin_archive")
    /\ out' = {}
    /\ UNCHANGED <<ratelimit, heartbeat, rematchOffer, newRoom, seats, moves, drawOffer, abandonment, archive, now, calls,
                   maker, conn, hist>>

FinClearDraw(h) ==
    /\ hs[h].pc = "fin_cleardraw"
    /\ drawOffer' = ""
    /\ Goto(h, "fin_archive")
    /\ out' = {}
    /\ UNCHANGED <<ratelimit, heartbeat, rematchOffer, newRoom, game, seats, moves, abandonment, archive, now, calls,
                   maker, conn, hist>>

FinFrame(h) ==
    IF hs[h].kind = "move" THEN (IF hs[h].flag THEN "flag" ELSE "move")
    ELSE IF hs[h].kind = "resign" THEN "resign"
    ELSE IF hs[h].kind = "draw_accept" THEN "draw_accepted"
    ELSE "flag"

FinArchive(h) ==
    /\ hs[h].pc = "fin_archive"
    /\ archive' = archiveGame
    /\ out' = broadcastAll(FinFrame(h))
    /\ Idle(h)
    /\ UNCHANGED <<ratelimit, heartbeat, rematchOffer, newRoom, game, seats, moves, drawOffer, abandonment, now, calls,
                   maker, conn, hist>>

-----------------------------------------------------------------------------
(* handleMove *)

\* the deduct script: remaining = balance - (nowMs - lastMoveAt)
deductRemaining(g, color, nowMs) ==
    (IF color = "white" THEN g.whiteTimeMs ELSE g.blackTimeMs) - (nowMs - g.lastMoveAt)

\* (variant: a clock that hits exactly zero is let through)
deductTimedOutStrict(remaining) == remaining < 0

\* the deduct script's rejection
deductTimedOut(remaining) == remaining <= 0

\* (variant: the increment is credited twice)
deductBalanceTwice(remaining, increment) == remaining + increment + increment

\* the deduct script's new balance of the mover
deductBalance(remaining, increment) == remaining + increment

\* the deduct script's writes to game:{id}
deductGame(g, color, balance, nowMs, fen) ==
    IF color = "white"
    THEN [g EXCEPT !.whiteTimeMs = balance, !.lastMoveAt = nowMs, !.currentFen = fen]
    ELSE [g EXCEPT !.blackTimeMs = balance, !.lastMoveAt = nowMs, !.currentFen = fen]

GameMove(h) == [moveNumber |-> hs[h].n, notation |-> hs[h].san, fen |-> hs[h].fen]

\* the frame arrives; checkAndProcessAbandonment reads the timer
MoveStart(h, p) ==
    /\ Free(h)
    /\ conn[p].state = "joined"
    /\ Len(moves) < MaxMoves
    /\ IF abandonmentDue
       THEN hs' = [hs EXCEPT ![h] = [IdleH EXCEPT !.pc = "abn_set", !.kind = "move",
                                       !.peer = p, !.res = AbandonmentResult]]
       ELSE hs' = [hs EXCEPT ![h] = [IdleH EXCEPT !.pc = "m_get", !.kind = "move",
                                       !.peer = p]]
    /\ out' = {}
    /\ UNCHANGED <<ratelimit, heartbeat, rematchOffer, newRoom, game, seats, moves, drawOffer, abandonment, archive, now,
                   calls, maker, conn>>
    /\ hist' = [hist EXCEPT !.frames = @ + 1]

\* getGame, the status / seat / turn checks and chess.move on the frame's
\* from / to, which nothing reads before this point
MoveGet(h, san) ==
    /\ hs[h].pc = "m_get"
    /\ LET g == getGame
           color == tokenColor(PeerToken(hs[h].peer), g)
       IN IF \/ ~g.exists
             \/ g.status # "IN_PROGRESS"
             \/ color = "none"
             \/ g.g.currentFen.turn # color
             \/ ~Legal(g.g.currentFen, san)
          THEN Idle(h) /\ out' = sendError(hs[h].peer)
          ELSE /\ hs' = [hs EXCEPT ![h] =
                    [@ EXCEPT !.pc = "m_count", !.color = color, !.san = san,
                              !.fen = ChessMove(g.g.currentFen, san),
                              !.timed = g.g.timeInitialMs > 0]]
               /\ out' = {}
    /\ UNCHANGED <<ratelimit, heartbeat, rematchOffer, newRoom, game, seats, moves, drawOffer, abandonment, archive, now,
                   calls, maker, conn, hist>>

\* getMoveCount, then moveNumber and createdAt = Date.now()
MoveCount(h) ==
    /\ hs[h].pc = "m_count"
    /\ hs' = [hs EXCEPT ![h] =
         [@ EXCEPT !.pc = IF hs[h].timed THEN "m_deduct" ELSE "m_rpush",
                   !.n = Len(moves) + 1, !.t = now]]
    /\ out' = {}
    /\ UNCHANGED <<ratelimit, heartbeat, rematchOffer, newRoom, game, seats, moves, drawOffer, abandonment, archive, now,
                   calls, maker, conn, hist>>

\* deductTimeAndMove: the script
MoveDeduct(h) ==
    /\ hs[h].pc = "m_deduct"
    /\ LET remaining == deductRemaining(game, hs[h].color, hs[h].t)
       IN IF deductTimedOut(remaining)
          THEN /\ hs' = [hs EXCEPT ![h] =
                    [@ EXCEPT !.pc = "fin_set", !.flag = TRUE,
                              !.res = WinnerIfLoses(hs[h].color)]]
               /\ UNCHANGED <<game, moves, hist>>
          ELSE /\ game' = deductGame(game, hs[h].color,
                                     deductBalance(remaining, game.timeIncrementMs),
                                     hs[h].t, hs[h].fen)
               /\ moves' = Append(moves, GameMove(h))
               /\ hist' = [hist EXCEPT !.accepted = @ + 1]
               /\ Goto(h, "m_post")
    /\ out' = {}
    /\ UNCHANGED <<ratelimit, heartbeat, rematchOffer, newRoom, seats, drawOffer, abandonment, archive, now, calls, maker, conn>>

\* addMove: RPUSH game:{id}:moves
MoveRpush(h) ==
    /\ hs[h].pc = "m_rpush"
    /\ moves' = Append(moves, GameMove(h))
    /\ hist' = [hist EXCEPT !.accepted = @ + 1]
    /\ Goto(h, "m_setfen")
    /\ out' = {}
    /\ UNCHANGED <<ratelimit, heartbeat, rematchOffer, newRoom, game, seats, drawOffer, abandonment, archive, now, calls,
                   maker, conn>>

\* addMove: HSET game:{id} currentFen
MoveSetFen(h) ==
    /\ hs[h].pc = "m_setfen"
    /\ game' = [game EXCEPT !.currentFen = hs[h].fen]
    /\ Goto(h, "m_post")
    /\ out' = {}
    /\ UNCHANGED <<ratelimit, heartbeat, rematchOffer, newRoom, seats, moves, drawOffer, abandonment, archive, now, calls,
                   maker, conn, hist>>

\* chess.isCheckmate() / chess.isDraw() on the position after the move
MoveResult(fen) ==
    IF fen.over = "mate" THEN WinnerIfLoses(fen.turn)
    ELSE IF fen.over = "draw" THEN "DRAW" ELSE ""

\* after the write: a game-ending move goes on to setGameResult; any other
\* move is broadcast and the draw offer is cleared next
MovePost(h) ==
    /\ hs[h].pc = "m_post"
    /\ IF MoveResult(hs[h].fen) # ""
       THEN /\ hs' = [hs EXCEPT ![h] =
                 [@ EXCEPT !.pc = "fin_set", !.res = MoveResult(hs[h].fen)]]
            /\ out' = {}
       ELSE /\ out' = broadcastAll("move")
            /\ hs' = [hs EXCEPT ![h] =
                 [@ EXCEPT !.pc = "m_cleardraw",
                           !.sent = @ + broadcasts(out', hs[h].peer)]]
    /\ UNCHANGED <<ratelimit, heartbeat, rematchOffer, newRoom, game, seats, moves, drawOffer, abandonment, archive, now,
                   calls, maker, conn, hist>>

MoveClearDraw(h) ==
    /\ hs[h].pc = "m_cleardraw"
    /\ drawOffer' = ""
    /\ Idle(h)
    /\ out' = {}
    /\ UNCHANGED <<ratelimit, heartbeat, rematchOffer, newRoom, game, seats, moves, abandonment, archive, now, calls,
                   maker, conn, hist>>

-----------------------------------------------------------------------------
(* handleResign *)

ResignGet(h, p) ==
    /\ Free(h)
    /\ conn[p].state = "joined"
    /\ LET g == getGame
           color == tokenColor(PeerToken(p), g)
       IN IF ~g.exists \/ g.status # "IN_PROGRESS" \/ color = "none"
          THEN Idle(h) /\ out' = sendError(p)
          ELSE /\ hs' = [hs EXCEPT ![h] =
                    [IdleH EXCEPT !.pc = "fin_set", !.kind = "resign", !.peer = p,
                                  !.color = color, !.res = WinnerIfLoses(color)]]
               /\ out' = {}
    /\ UNCHANGED <<ratelimit, heartbeat, rematchOffer, newRoom, game, seats, moves, drawOffer, abandonment, archive, now,
                   calls, maker, conn>>
    /\ hist' = [hist EXCEPT !.frames = @ + 1]

-----------------------------------------------------------------------------
(* handleDrawOffer / handleDrawAccept *)

DrawOfferGet(h, p) ==
    /\ Free(h)
    /\ conn[p].state = "joined"
    /\ LET g == getGame
           color == tokenColor(PeerToken(p), g)
       IN IF ~g.exists \/ g.status # "IN_PROGRESS" \/ color = "none"
          THEN Idle(h) /\ out' = sendError(p)
          ELSE /\ hs' = [hs EXCEPT ![h] =
                    [IdleH EXCEPT !.pc = "do_check", !.kind = "draw_offer",
                                  !.peer = p, !.color = color]]
               /\ out' = {}
    /\ UNCHANGED <<ratelimit, heartbeat, rematchOffer, newRoom, game, seats, moves, drawOffer, abandonment, archive, now,
                   calls, maker, conn>>
    /\ hist' = [hist EXCEPT !.frames = @ + 1]

\* getDrawOffer: own offer pending -> error; the opponent's -> handleDrawAccept
DrawOfferCheck(h) ==
    /\ hs[h].pc = "do_check"
    /\ IF drawOffer = hs[h].color
       THEN Idle(h) /\ out' = sendError(hs[h].peer)
       ELSE /\ Goto(h, IF drawOffer # "" THEN "da_get" ELSE "do_set")
            /\ out' = {}
    /\ UNCHANGED <<ratelimit, heartbeat, rematchOffer, newRoom, game, seats, moves, drawOffer, abandonment, archive, now,
                   calls, maker, conn, hist>>

\* setDrawOffer and the broadcast
DrawOfferSet(h) ==
    /\ hs[h].pc = "do_set"
    /\ drawOffer' = hs[h].color
    /\ out' = broadcastAll("draw_offer")
    /\ Idle(h)
    /\ UNCHANGED <<ratelimit, heartbeat, rematchOffer, newRoom, game, seats, moves, abandonment, archive, now, calls,
                   maker, conn, hist>>

\* handleDrawAccept: getGame and the status / seat checks
drawAcceptGet(h, p) ==
    LET g == getGame
        color == tokenColor(PeerToken(p), g)
    IN IF ~g.exists \/ g.status # "IN_PROGRESS" \/ color = "none"
       THEN Idle(h) /\ out' = sendError(p)
       ELSE /\ hs' = [hs EXCEPT ![h] =
                 [IdleH EXCEPT !.pc = "da_check", !.kind = "draw_accept",
                               !.peer = p, !.color = color]]
            /\ out' = {}

DrawAcceptGet(h, p) ==
    /\ Free(h)
    /\ conn[p].state = "joined"
    /\ drawAcceptGet(h, p)
    /\ UNCHANGED <<ratelimit, heartbeat, rematchOffer, newRoom, game, seats, moves, drawOffer, abandonment, archive, now,
                   calls, maker, conn>>
    /\ hist' = [hist EXCEPT !.frames = @ + 1]

\* handleDrawAccept entered from handleDrawOffer
DrawOfferAccept(h) ==
    /\ hs[h].pc = "da_get"
    /\ drawAcceptGet(h, hs[h].peer)
    /\ UNCHANGED <<ratelimit, heartbeat, rematchOffer, newRoom, game, seats, moves, drawOffer, abandonment, archive, now,
                   calls, maker, conn, hist>>

\* (variant: any pending offer can be accepted, the sender's own too)
drawOfferPendingAny(pendingOffer, playerColor) == pendingOffer # ""

\* the negation of !pendingOffer || pendingOffer === playerColor
drawOfferPending(pendingOffer, playerColor) ==
    pendingOffer # "" /\ pendingOffer # playerColor

\* getDrawOffer: an offer by the opponent must be pending
DrawAcceptCheck(h) ==
    /\ hs[h].pc = "da_check"
    /\ IF ~drawOfferPending(drawOffer, hs[h].color)
       THEN Idle(h) /\ out' = sendError(hs[h].peer)
       ELSE /\ hs' = [hs EXCEPT ![h] = [@ EXCEPT !.pc = "fin_set", !.res = "DRAW"]]
            /\ out' = {}
    /\ UNCHANGED <<ratelimit, heartbeat, rematchOffer, newRoom, game, seats, moves, drawOffer, abandonment, archive, now,
                   calls, maker, conn, hist>>

-----------------------------------------------------------------------------
(* handleFlag *)

\* checkTimeout(gameId, activeColor, nowMs).timedOut
checkTimeout(g, activeColor, nowMs) == deductRemaining(g, activeColor, nowMs) <= 0

\* getGame, the checks, opponentColor and now = Date.now()
FlagGet(h, p) ==
    /\ Free(h)
    /\ conn[p].state = "joined"
    /\ LET g == getGame
           color == tokenColor(PeerToken(p), g)
       IN IF \/ ~g.exists
             \/ g.status # "IN_PROGRESS" \/ g.g.timeInitialMs = 0
             \/ color = "none"
          THEN Idle(h) /\ out' = sendError(p)
          ELSE /\ hs' = [hs EXCEPT ![h] =
                    [IdleH EXCEPT !.pc = "f_check", !.kind = "flag", !.peer = p,
                                  !.color = Other(color), !.t = now]]
               /\ out' = {}
    /\ UNCHANGED <<ratelimit, heartbeat, rematchOffer, newRoom, game, seats, moves, drawOffer, abandonment, archive, now,
                   calls, maker, conn>>
    /\ hist' = [hist EXCEPT !.frames = @ + 1]

\* checkTimeout on the opponent's clock; silent return when not timed out
FlagCheck(h) ==
    /\ hs[h].pc = "f_check"
    /\ IF game.status # "NONE" /\ checkTimeout(game, hs[h].color, hs[h].t)
       THEN hs' = [hs EXCEPT ![h] =
                [@ EXCEPT !.pc = "fin_set", !.res = WinnerIfLoses(hs[h].color)]]
       ELSE Idle(h)
    /\ out' = {}
    /\ UNCHANGED <<ratelimit, heartbeat, rematchOffer, newRoom, game, seats, moves, drawOffer, abandonment, archive, now,
                   calls, maker, conn, hist>>

-----------------------------------------------------------------------------
(* handleClaimWin.  session.claimWin and session.setClaimWinTimer are not   *)
(* among the sources; they follow the specification (claimWinScript) and    *)
(* the error cases of describe("claimWin").                                 *)

connectedBit(color) == IF color = "white" THEN seats.whiteConnected ELSE seats.blackConnected

claimWinOk(claimant) ==
    /\ game.status = "IN_PROGRESS"
    /\ game.timeInitialMs > 0
    /\ getAbandonmentInfo # NoTimer
    /\ getAbandonmentInfo.disconnectedColor # claimant
    /\ ~connectedBit(getAbandonmentInfo.disconnectedColor)
    /\ now >= getAbandonmentInfo.deadline

setClaimWinTimer(color) ==
    [disconnectedColor |-> color, deadline |-> now + CLAIM_WIN_TIMEOUT_SECONDS]

\* data.playerColor, then the claim script
ClaimWin(h, p) ==
    /\ Free(h)
    /\ conn[p].state = "joined"
    /\ IF conn[p].color = "none" \/ ~claimWinOk(conn[p].color)
       THEN /\ Idle(h)
            /\ out' = sendError(p)
            /\ UNCHANGED <<game, abandonment>>
       ELSE /\ game' = setGameAbandoned(game, WinnerIfLoses(Other(conn[p].color)))
            /\ abandonment' = NoTimer
            /\ hs' = [hs EXCEPT ![h] =
                 [IdleH EXCEPT !.pc = "cw_archive", !.kind = "claim_win", !.peer = p]]
            /\ out' = {}
    /\ UNCHANGED <<ratelimit, heartbeat, rematchOffer, newRoom, seats, moves, drawOffer, archive, now, calls, maker, conn>>
    /\ hist' = [hist EXCEPT !.frames = @ + 1]

\* claimWin's archiveGame, then handleClaimWin's broadcast
ClaimWinArchive(h) ==
    /\ hs[h].pc = "cw_archive"
    /\ archive' = archiveGame
    /\ out' = broadcastAll("game_abandoned")
    /\ Idle(h)
    /\ UNCHANGED <<ratelimit, heartbeat, rematchOffer, newRoom, game, seats, moves, drawOffer, abandonment, now, calls,
                   maker, conn, hist>>

-----------------------------------------------------------------------------
(* replayMoves: chess.move(notation) from the initial position, stopping at *)
(* the first move that does not replay                                      *)

RECURSIVE replayFrom(_, _, _)
replayFrom(fen, ms, valid) ==
    IF ms = <<>> THEN [lastValidFen |-> fen, validMoves |-> valid, corrupted |-> FALSE]
    ELSE IF ~Legal(fen, Head(ms).notation)
    THEN [lastValidFen |-> fen, validMoves |-> valid, corrupted |-> TRUE]
    ELSE replayFrom(ChessMove(fen, Head(ms).notation), Tail(ms), valid + 1)

replayMoves(ms) == replayFrom(INITIAL_FEN, ms, 0)

-----------------------------------------------------------------------------
(* handleJoin *)

\* getConnectionStatus: seats?.whiteConnected ?? false
getConnectionStatus(color) == seats.whiteToken # "" /\ connectedBit(color)

\* setPlayerConnected: HSET game:{id}:seats {color}Connected
setPlayerConnected(color, bit) ==
    IF color = "white" THEN [seats EXCEPT !.whiteConnected = bit]
    ELSE [seats EXCEPT !.blackConnected = bit]

\* data.gameId / data.token, rooms.get(gameId).add(ws), getGame, role; a
\* browser whose socket closed sends its join on a new socket
JoinFrame(h, p) ==
    /\ Free(h)
    /\ conn[p].state \in {"closed", "open", "joined", "elsewhere", "moved"}
    /\ LET g == getGame
           color == IF tokenColor(PeerToken(p), g) # "none" /\ PeerToken(p) # ""
                    THEN tokenColor(PeerToken(p), g) ELSE conn[p].color
       IN IF ~g.exists
          THEN /\ conn' = [conn EXCEPT ![p] = [@ EXCEPT !.state = "joined"]]
               /\ Idle(h)
               /\ out' = sendError(p)
          ELSE /\ conn' = [conn EXCEPT ![p] = [state |-> "joined", color |-> color]]
               /\ hs' = [hs EXCEPT ![h] =
                    [IdleH EXCEPT !.pc = IF color = "none" THEN "j_state" ELSE "j_abn",
                                  !.kind = "join", !.peer = p, !.color = color,
                                  !.snap = g.g]]
               /\ out' = {}
    /\ UNCHANGED <<ratelimit, heartbeat, rematchOffer, newRoom, game, seats, moves, drawOffer, abandonment, archive, now,
                   calls, maker>>
    /\ hist' = [hist EXCEPT !.frames = @ + 1]

\* checkAndProcessAbandonment reads the timer
JoinAbn(h) ==
    /\ hs[h].pc = "j_abn"
    /\ IF abandonmentDue
       THEN hs' = [hs EXCEPT ![h] = [@ EXCEPT !.pc = "abn_set", !.res = AbandonmentResult]]
       ELSE Goto(h, "j_timer")
    /\ out' = {}
    /\ UNCHANGED <<ratelimit, heartbeat, rematchOffer, newRoom, game, seats, moves, drawOffer, abandonment, archive, now,
                   calls, maker, conn, hist>>

\* getAbandonmentInfo: a timer for this player's own colour is to be cleared
JoinTimer(h) ==
    /\ hs[h].pc = "j_timer"
    /\ Goto(h, IF /\ getAbandonmentInfo # NoTimer
                  /\ getAbandonmentInfo.disconnectedColor = hs[h].color
               THEN "j_clear" ELSE "j_conn")
    /\ out' = {}
    /\ UNCHANGED <<ratelimit, heartbeat, rematchOffer, newRoom, game, seats, moves, drawOffer, abandonment, archive, now,
                   calls, maker, conn, hist>>

JoinClear(h) ==
    /\ hs[h].pc = "j_clear"
    /\ abandonment' = NoTimer
    /\ Goto(h, "j_conn")
    /\ out' = {}
    /\ UNCHANGED <<ratelimit, heartbeat, rematchOffer, newRoom, game, seats, moves, drawOffer, archive, now, calls, maker,
                   conn, hist>>

\* getConnectionStatus: wasConnected
JoinConn(h) ==
    /\ hs[h].pc = "j_conn"
    /\ hs' = [hs EXCEPT ![h] =
         [@ EXCEPT !.pc = "j_setconn", !.flag = getConnectionStatus(hs[h].color)]]
    /\ out' = {}
    /\ UNCHANGED <<ratelimit, heartbeat, rematchOffer, newRoom, game, seats, moves, drawOffer, abandonment, archive, now,
                   calls, maker, conn, hist>>

\* setPlayerConnected(true); opponent_connected to the others and
\* connection_status to the sender
JoinSetConn(h) ==
    /\ hs[h].pc = "j_setconn"
    /\ seats' = setPlayerConnected(hs[h].color, TRUE)
    /\ out' = (IF hs[h].flag THEN {}
                ELSE broadcastToOthers("opponent_connected", hs[h].peer))
               \cup (IF hs[h].snap.status # "WAITING"
                     THEN {[type |-> "connection_status", to |-> hs[h].peer]}
                     ELSE {})
    /\ hs' = [hs EXCEPT ![h] =
         [@ EXCEPT !.pc = "j_state", !.flag = FALSE,
                   !.sent = @ + broadcasts(out', hs[h].peer)]]
    /\ UNCHANGED <<ratelimit, heartbeat, rematchOffer, newRoom, game, moves, drawOffer, abandonment, archive, now, calls,
                   maker, conn, hist>>

\* actualFen: the record's fen as read at the start, or the replay's when
\* the last logged fen differs from it
actualFen(snap) ==
    IF moves # <<>> /\ moves[Len(moves)].fen # snap.currentFen
    THEN replayMoves(moves).lastValidFen
    ELSE snap.currentFen

\* (variant: the clock is checked only once a move has been logged)
joinFlagLoserAfterFirstMove(snap) ==
    IF snap.timeInitialMs > 0 /\ snap.status = "IN_PROGRESS" /\ moves # <<>>
    THEN LET elapsed == now - snap.lastMoveAt
             whiteRuns == actualFen(snap).turn = "white"
             liveWhiteTimeMs == IF whiteRuns THEN snap.whiteTimeMs - elapsed
                                ELSE snap.whiteTimeMs
             liveBlackTimeMs == IF whiteRuns THEN snap.blackTimeMs
                                ELSE snap.blackTimeMs - elapsed
         IN IF liveWhiteTimeMs <= 0 THEN "white"
            ELSE IF liveBlackTimeMs <= 0 THEN "black"
            ELSE "none"
    ELSE "none"

\* the clock check on the record read at the start: the side to move in
\* actualFen is charged now - lastMoveAt; liveWhiteTimeMs <= 0 is tested first
joinFlagLoser(snap) ==
    IF snap.timeInitialMs > 0 /\ snap.status = "IN_PROGRESS" /\ snap.lastMoveAt > 0
    THEN LET elapsed == now - snap.lastMoveAt
             whiteRuns == actualFen(snap).turn = "white"
             liveWhiteTimeMs == IF whiteRuns THEN snap.whiteTimeMs - elapsed
                                ELSE snap.whiteTimeMs
             liveBlackTimeMs == IF whiteRuns THEN snap.blackTimeMs
                                ELSE snap.blackTimeMs - elapsed
         IN IF liveWhiteTimeMs <= 0 THEN "white"
            ELSE IF liveBlackTimeMs <= 0 THEN "black"
            ELSE "none"
    ELSE "none"

\* the move log and offers are read, then the clock check: flag, or
\* game_state to the sender and spectator_count to the room
JoinState(h) ==
    /\ hs[h].pc = "j_state"
    /\ LET loser == joinFlagLoser(hs[h].snap)
       IN IF loser # "none"
          THEN /\ hs' = [hs EXCEPT ![h] =
                    [@ EXCEPT !.pc = "fin_set", !.res = WinnerIfLoses(loser)]]
               /\ out' = {}
          ELSE /\ out' = {[type |-> "game_state", to |-> hs[h].peer]}
                            \cup broadcastAll("spectator_count")
               /\ IF /\ hs[h].snap.timeInitialMs > 0
                     /\ hs[h].snap.status = "IN_PROGRESS"
                     /\ hs[h].color # "none"
                  THEN hs' = [hs EXCEPT ![h] =
                         [@ EXCEPT !.pc = "j_sync",
                                   !.sent = @ + broadcasts(out', hs[h].peer)]]
                  ELSE Idle(h)
    /\ UNCHANGED <<ratelimit, heartbeat, rematchOffer, newRoom, game, seats, moves, drawOffer, abandonment, archive, now,
                   calls, maker, conn, hist>>

\* getGame again; clock_sync to the others
JoinSync(h) ==
    /\ hs[h].pc = "j_sync"
    /\ out' = IF game.status # "NONE"
              THEN broadcastToOthers("clock_sync", hs[h].peer) ELSE {}
    /\ Idle(h)
    /\ UNCHANGED <<ratelimit, heartbeat, rematchOffer, newRoom, game, seats, moves, drawOffer, abandonment, archive, now,
                   calls, maker, conn, hist>>

-----------------------------------------------------------------------------
(* ws.on("close") *)

setAbandonmentTimer(color) ==
    [disconnectedColor |-> color, deadline |-> now + ABANDONMENT_TIMEOUT_SECONDS]

\* deleteGame: DEL of every key of the room
DeleteGame ==
    /\ game' = NoGame
    /\ seats' = NoSeats
    /\ moves' = <<>>
    /\ drawOffer' = ""
    /\ rematchOffer' = ""
    /\ abandonment' = NoTimer

\* room.delete(ws); spectator_count to the peers that remain
CloseStart(h, p) ==
    /\ Free(h)
    /\ conn[p].state = "joined"
    /\ conn' = [conn EXCEPT ![p] = [state |-> "closed", color |-> "none"]]
    /\ out' = {[type |-> "spectator_count", to |-> q] : q \in Room \ {p}}
    /\ IF conn[p].color = "none"
       THEN Idle(h)
       ELSE hs' = [hs EXCEPT ![h] =
                [IdleH EXCEPT !.pc = "c_get", !.kind = "close", !.peer = p,
                              !.color = conn[p].color]]
    /\ UNCHANGED <<ratelimit, heartbeat, rematchOffer, newRoom, game, seats, moves, drawOffer, abandonment, archive, now,
                   calls, maker>>
    /\ hist' = [hist EXCEPT !.frames = @ + 1]

\* getGame and the branch on its status
CloseGet(h) ==
    /\ hs[h].pc = "c_get"
    /\ LET g == getGame
       IN IF g.status = "WAITING" /\ hs[h].color = "white" /\ RoomSet = {}
          THEN Goto(h, "c_delete")
          ELSE IF g.status \in {"IN_PROGRESS", "FINISHED", "ABANDONED"}
          THEN hs' = [hs EXCEPT ![h] = [@ EXCEPT !.pc = "c_off", !.snap = g.g]]
          ELSE Idle(h)
    /\ out' = {}
    /\ UNCHANGED <<ratelimit, heartbeat, rematchOffer, newRoom, game, seats, moves, drawOffer, abandonment, archive, now,
                   calls, maker, conn, hist>>

\* setPlayerConnected(false)
CloseOff(h) ==
    /\ hs[h].pc = "c_off"
    /\ seats' = setPlayerConnected(hs[h].color, FALSE)
    /\ IF hs[h].snap.status = "IN_PROGRESS" THEN Goto(h, "c_timer")
       ELSE IF RoomSet = {} THEN Goto(h, "c_archive")
       ELSE Idle(h)
    /\ out' = {}
    /\ UNCHANGED <<ratelimit, heartbeat, rematchOffer, newRoom, game, moves, drawOffer, abandonment, archive, now, calls,
                   maker, conn, hist>>

\* timed: setClaimWinTimer; untimed: setAbandonmentTimer; opponent_disconnected
CloseTimer(h) ==
    /\ hs[h].pc = "c_timer"
    /\ abandonment' = IF hs[h].snap.timeInitialMs > 0
                      THEN setClaimWinTimer(hs[h].color)
                      ELSE setAbandonmentTimer(hs[h].color)
    /\ out' = broadcastAll("opponent_disconnected")
    /\ Idle(h)
    /\ UNCHANGED <<ratelimit, heartbeat, rematchOffer, newRoom, game, seats, moves, drawOffer, archive, now, calls, maker,
                   conn, hist>>

\* archiveAndDeleteGame: archiveGame
CloseArchive(h) ==
    /\ hs[h].pc = "c_archive"
    /\ archive' = archiveGame
    /\ Goto(h, "c_delete")
    /\ out' = {}
    /\ UNCHANGED <<ratelimit, heartbeat, rematchOffer, newRoom, game, seats, moves, drawOffer, abandonment, now, calls,
                   maker, conn, hist>>

\* archiveAndDeleteGame: deleteGame
CloseDelete(h) ==
    /\ hs[h].pc = "c_delete"
    /\ DeleteGame
    /\ Idle(h)
    /\ out' = {}
    /\ UNCHANGED <<ratelimit, heartbeat, newRoom, archive, now, calls, maker, conn, hist>>

-----------------------------------------------------------------------------
(* Frames for another room id on the same connection.  handleJoin sets      *)
(* data.gameId and data.token for the new id and adds the socket to the new *)
(* room's set; it does not take the socket out of the set it is in, and it  *)
(* assigns data.playerColor only when the token matches a seat.  The other  *)
(* room's record is not part of this model: the rest of that handler, and   *)
(* the close handler of a connection whose data.gameId is the other room,   *)
(* touch nothing of this room.                                              *)

\* a join frame for another room in which the peer holds the seat `color`
JoinElsewhere(h, p, color) ==
    /\ Free(h)
    /\ conn[p].state \in {"closed", "joined", "elsewhere", "moved"}
    /\ conn' = [conn EXCEPT ![p] =
         [state |-> IF conn[p].state \in {"joined", "moved"} THEN "moved"
                    ELSE "elsewhere",
          color |-> color]]
    /\ Idle(h)
    /\ out' = {}
    /\ UNCHANGED <<ratelimit, heartbeat, rematchOffer, newRoom, game, seats, moves, drawOffer, abandonment, archive, now,
                   calls, maker>>
    /\ hist' = [hist EXCEPT !.frames = @ + 1]

\* ws.on("close") with data.gameId the other room: rooms.get(data.gameId) is
\* the other room's set
CloseElsewhere(h, p) ==
    /\ Free(h)
    /\ conn[p].state \in {"elsewhere", "moved"}
    /\ conn' = [conn EXCEPT ![p] =
         [state |-> IF conn[p].state = "moved" THEN "stale" ELSE "closed",
          color |-> "none"]]
    /\ Idle(h)
    /\ out' = {}
    /\ UNCHANGED <<ratelimit, heartbeat, rematchOffer, newRoom, game, seats, moves, drawOffer, abandonment, archive, now,
                   calls, maker>>
    /\ hist' = [hist EXCEPT !.frames = @ + 1]

-----------------------------------------------------------------------------
(* The sweeper: sweepZombieRooms and sweepFinishedGames on this room *)

SweepZombieGet(h) ==
    /\ Free(h)
    /\ game.status = "IN_PROGRESS"
    /\ hs' = [hs EXCEPT ![h] = [IdleH EXCEPT !.pc = "z_conn", !.kind = "sweep"]]
    /\ out' = {}
    /\ UNCHANGED <<ratelimit, heartbeat, rematchOffer, newRoom, game, seats, moves, drawOffer, abandonment, archive, now,
                   calls, maker, conn>>
    /\ hist' = [hist EXCEPT !.frames = @ + 1]

SweepZombieConn(h) ==
    /\ hs[h].pc = "z_conn"
    /\ LET w == getConnectionStatus("white")
           b == getConnectionStatus("black")
       IN IF ~w /\ ~b THEN Goto(h, "z_timer")
          ELSE IF ~w \/ ~b THEN Goto(h, "z_abn")
          ELSE Idle(h)
    /\ out' = {}
    /\ UNCHANGED <<ratelimit, heartbeat, rematchOffer, newRoom, game, seats, moves, drawOffer, abandonment, archive, now,
                   calls, maker, conn, hist>>

\* both disconnected: getAbandonmentInfo
SweepZombieTimer(h) ==
    /\ hs[h].pc = "z_timer"
    /\ Goto(h, IF getAbandonmentInfo = NoTimer THEN "z_set" ELSE "z_abn")
    /\ out' = {}
    /\ UNCHANGED <<ratelimit, heartbeat, rematchOffer, newRoom, game, seats, moves, drawOffer, abandonment, archive, now,
                   calls, maker, conn, hist>>

\* setAbandonmentTimer(gameId, "white")
SweepZombieSet(h) ==
    /\ hs[h].pc = "z_set"
    /\ abandonment' = setAbandonmentTimer("white")
    /\ Idle(h)
    /\ out' = {}
    /\ UNCHANGED <<ratelimit, heartbeat, rematchOffer, newRoom, game, seats, moves, drawOffer, archive, now, calls, maker,
                   conn, hist>>

\* checkAndProcessAbandonment reads the timer
SweepZombieAbn(h) ==
    /\ hs[h].pc = "z_abn"
    /\ IF abandonmentDue
       THEN hs' = [hs EXCEPT ![h] = [@ EXCEPT !.pc = "abn_set", !.res = AbandonmentResult]]
       ELSE Idle(h)
    /\ out' = {}
    /\ UNCHANGED <<ratelimit, heartbeat, rematchOffer, newRoom, game, seats, moves, drawOffer, abandonment, archive, now,
                   calls, maker, conn, hist>>

SweepFinishedGet(h) ==
    /\ Free(h)
    /\ game.status \in Terminal
    /\ hs' = [hs EXCEPT ![h] = [IdleH EXCEPT !.pc = "s_conn", !.kind = "sweep"]]
    /\ out' = {}
    /\ UNCHANGED <<ratelimit, heartbeat, rematchOffer, newRoom, game, seats, moves, drawOffer, abandonment, archive, now,
                   calls, maker, conn>>
    /\ hist' = [hist EXCEPT !.frames = @ + 1]

\* getConnectionStatus: a connected player keeps the record
SweepFinishedConn(h) ==
    /\ hs[h].pc = "s_conn"
    /\ IF getConnectionStatus("white") \/ getConnectionStatus("black")
       THEN Idle(h)
       ELSE Goto(h, "c_archive")
    /\ out' = {}
    /\ UNCHANGED <<ratelimit, heartbeat, rematchOffer, newRoom, game, seats, moves, drawOffer, abandonment, archive, now,
                   calls, maker, conn, hist>>

-----------------------------------------------------------------------------
(* The room at the start: waiting for its second player with the creator   *)
(* attached, or right after the join route returned and the three peers     *)
(* attached (IN_PROGRESS at the initial position, clocks stamped at join)   *)

JoinedGame(tc) ==
    [createGameSession(tc, "white", 1) EXCEPT
        !.status = "IN_PROGRESS",
        !.whiteTimeMs = tc.initial, !.blackTimeMs = tc.initial,
        !.lastMoveAt = IF tc.initial > 0 THEN 1 ELSE 0]

InitWaiting ==
    /\ \E tc \in TimeControls : game = createGameSession(tc, "white", 1)
    /\ seats = [createGameSeats EXCEPT !.whiteConnected = TRUE]
    /\ conn = [p \in Peers |->
                 IF p = "W" THEN [state |-> "joined", color |-> "white"]
                 ELSE IF p = "S" THEN [state |-> "joined", color |-> "none"]
                 ELSE [state |-> "closed", color |-> "none"]]

InitJoined ==
    /\ \E tc \in TimeControls : game = JoinedGame(tc)
    /\ seats = [whiteToken |-> "creator", blackToken |-> "joiner1",
                whiteConnected |-> TRUE, blackConnected |-> TRUE]
    /\ conn = [p \in Peers |->
                 [state |-> "joined",
                  color |-> IF p = "W" THEN "white" ELSE IF p = "B" THEN "black" ELSE "none"]]

Init ==
    /\ InitWaiting \/ InitJoined
    /\ moves = <<>>
    /\ drawOffer = ""
    /\ rematchOffer = ""
    /\ newRoom = NoRoom
    /\ abandonment = NoTimer
    /\ archive = <<>>
    /\ now = 1
    /\ calls = [c \in Callers |-> IdleCall]
    /\ maker = [kind |-> "createGame", pc |-> "done"]
    /\ hs = [h \in Handlers |-> IdleH]
    /\ out = {}
    /\ hist = NoHist
    /\ ratelimit = NoRate
    /\ heartbeat = [p \in Peers |-> ClientAlive]

\* every event of the room, one handler at a time
Next ==
    \/ Tick
    \/ JoinGetGame(1)
    \/ JoinGetSeats(1)
    \/ JoinEval(1)
    \/ \E p \in Peers : MoveStart(1, p)
    \/ \E san \in San : MoveGet(1, san)
    \/ MoveCount(1)
    \/ MoveDeduct(1)
    \/ MoveRpush(1)
    \/ MoveSetFen(1)
    \/ MovePost(1)
    \/ MoveClearDraw(1)
    \/ AbnSet(1)
    \/ AbnClear(1)
    \/ AbnArchive(1)
    \/ FinSet(1)
    \/ FinClearDraw(1)
    \/ FinArchive(1)
    \/ \E p \in Peers : ResignGet(1, p)
    \/ \E p \in Peers : DrawOfferGet(1, p)
    \/ DrawOfferCheck(1)
    \/ DrawOfferSet(1)
    \/ \E p \in Peers : DrawAcceptGet(1, p)
    \/ DrawOfferAccept(1)
    \/ DrawAcceptCheck(1)
    \/ \E p \in Peers : FlagGet(1, p)
    \/ FlagCheck(1)
    \/ \E p \in Peers : ClaimWin(1, p)
    \/ ClaimWinArchive(1)
    \/ \E p \in Peers : JoinFrame(1, p)
    \/ JoinAbn(1)
    \/ JoinTimer(1)
    \/ JoinClear(1)
    \/ JoinConn(1)
    \/ JoinSetConn(1)
    \/ JoinState(1)
    \/ JoinSync(1)
    \/ \E p \in Peers : CloseStart(1, p)
    \/ \E color \in Colors : JoinElsewhere(1, "S", color)
    \/ CloseElsewhere(1, "S")
    \/ CloseGet(1)
    \/ CloseOff(1)
    \/ CloseTimer(1)
    \/ CloseArchive(1)
    \/ CloseDelete(1)
    \/ SweepZombieGet(1)
    \/ SweepZombieConn(1)
    \/ SweepZombieTimer(1)
    \/ SweepZombieSet(1)
    \/ SweepZombieAbn(1)
    \/ SweepFinishedGet(1)
    \/ SweepFinishedConn(1)

Spec == Init /\ [][Next]_vars

\* the frames of a game in play, handled concurrently (ws.on("message") does
\* not wait for the handler of the frame before)
NextRace ==
    \/ Tick
    \/ \E h \in Handlers, p \in Peers : MoveStart(h, p)
    \/ \E h \in Handlers, san \in San : MoveGet(h, san)
    \/ \E h \in Handlers : MoveCount(h)
    \/ \E h \in Handlers : MoveDeduct(h)
    \/ \E h \in Handlers : MoveRpush(h)
    \/ \E h \in Handlers : MoveSetFen(h)
    \/ \E h \in Handlers : MovePost(h)
    \/ \E h \in Handlers : MoveClearDraw(h)
    \/ \E h \in Handlers : FinSet(h)
    \/ \E h \in Handlers : FinClearDraw(h)
    \/ \E h \in Handlers : FinArchive(h)
    \/ \E h \in Handlers, p \in Peers : ResignGet(h, p)
    \/ \E h \in Handlers, p \in Peers : DrawOfferGet(h, p)
    \/ \E h \in Handlers : DrawOfferCheck(h)
    \/ \E h \in Handlers : DrawOfferSet(h)
    \/ \E h \in Handlers, p \in Peers : DrawAcceptGet(h, p)
    \/ \E h \in Handlers : DrawOfferAccept(h)
    \/ \E h \in Handlers : DrawAcceptCheck(h)
    \/ \E h \in Handlers, p \in Peers : FlagGet(h, p)
    \/ \E h \in Handlers : FlagCheck(h)

SpecRace == Init /\ [][NextRace]_vars

-----------------------------------------------------------------------------
(* C1: for a WAITING room, under every interleaving of the joinGame calls,  *)
(* at most one call ever returns a token and role; once every call has      *)
(* returned exactly one did and the others returned null, blackToken has    *)
(* been written exactly once and the status is IN_PROGRESS.                 *)

Winners == {c \in Callers : calls[c].ret \in {"white", "black"}}

C1_JoinExactlyOne ==
    maker.kind = "createGame" =>
        /\ Cardinality(Winners) <= 1
        /\ hist.blackWrites <= 1
        /\ (\A c \in Callers : calls[c].pc = "done") =>
              /\ Cardinality(Winners) = 1
              /\ \A c \in Callers \ Winners : calls[c].ret = "null"
              /\ hist.blackWrites = 1
              /\ game.status = "IN_PROGRESS"
              /\ seats.blackToken # ""

\* all calls were past their first read before any script ran, and all returned
C1_Witness ==
    /\ maker.kind = "createGame"
    /\ \A c \in Callers : calls[c].pc = "done"
    /\ Cardinality({c \in Callers : calls[c].status = "WAITING"}) >= 2
    /\ Cardinality(Winners) = 1

(* C6: in every reachable state of the room record, status = WAITING iff    *)
(* blackToken is nil.                                                       *)
C6_WaitingIffNoBlack ==
    game.status # "NONE" => (game.status = "WAITING" <=> seats.blackToken = "")

(* C2: once the status is FINISHED or ABANDONED no step changes the status  *)
(* or the result; only the deletion of the record may follow.               *)
C2_TerminalIsFinal ==
    [][game.status \in Terminal =>
         \/ game'.status = "NONE"
         \/ game'.status = game.status /\ game'.result = game.result]_vars

(* C3: a step appends to the move log or changes currentFen only for a move *)
(* frame whose sender holds the seat of the side to move in currentFen,     *)
(* whose move is legal from currentFen, in an IN_PROGRESS room.             *)
C3_MoveOnlyWhenLegal ==
    [][(moves' # moves \/ game'.currentFen # game.currentFen) =>
         \E h \in Handlers :
            /\ hs'[h] # hs[h]
            /\ hs[h].kind = "move"
            /\ game.status = "IN_PROGRESS"
            /\ tokenColor(PeerToken(hs[h].peer), getGame) = game.currentFen.turn
            /\ Legal(game.currentFen, hs[h].san)]_vars

(* C4: whenever no addMove is between its two writes, currentFen is the     *)
(* position reached by replaying the whole move log from the initial        *)
(* position.                                                                *)
C4_FenIsReplay ==
    (game.status # "NONE" /\ \A h \in Handlers : hs[h].pc # "m_setfen") =>
        /\ ~replayMoves(moves).corrupted
        /\ replayMoves(moves).lastValidFen = game.currentFen

(* C5: the entries of the move log carry moveNumber 1..n in order, n being  *)
(* the length of the log and the number of accepted moves.                  *)
C5_MoveNumbers ==
    /\ \A i \in 1..Len(moves) : moves[i].moveNumber = i
    /\ Len(moves) = hist.accepted

(* C7: the status is FINISHED or ABANDONED iff the result is non-nil.       *)
C7_TerminalIffResult == (game.status \in Terminal) <=> (game.result # "")

\* a game ended by abandonment and archived
C7_Witness ==
    game.status = "ABANDONED" /\ game.result = "WHITE_WINS" /\ archive # <<>>

(* C8: a move frame of the side to move in a timed IN_PROGRESS game with    *)
(* remaining = balance - (now - lastMoveAt) > 0 goes on to the deduction,   *)
(* and the deduction either rejects (remaining <= 0: nothing appended, the  *)
(* mover loses on time) or writes balance = remaining + increment,          *)
(* lastMoveAt = now, appends the move and leaves the opponent's balance.    *)
C8_TimedMoveIsDeducted ==
    [][\A h \in Handlers :
         /\ ( /\ hs[h].pc = "idle" /\ hs'[h].kind = "move"
              /\ game.status = "IN_PROGRESS" /\ game.timeInitialMs > 0
              /\ tokenColor(PeerToken(hs'[h].peer), getGame) = game.currentFen.turn
              /\ deductRemaining(game, game.currentFen.turn, now) > 0 )
            => hs'[h].pc = "m_get"
         /\ (hs[h].pc = "m_deduct" /\ hs'[h] # hs[h]) =>
              LET c == hs[h].color
                  remaining == deductRemaining(game, c, hs[h].t)
              IN IF remaining <= 0
                 THEN /\ moves' = moves /\ game' = game
                      /\ hs'[h].pc = "fin_set" /\ hs'[h].res = WinnerIfLoses(c)
                 ELSE /\ moves' = Append(moves, GameMove(h))
                      /\ game'.lastMoveAt = hs[h].t
                      /\ IF c = "white"
                         THEN /\ game'.whiteTimeMs = remaining + game.timeIncrementMs
                              /\ game'.blackTimeMs = game.blackTimeMs
                         ELSE /\ game'.blackTimeMs = remaining + game.timeIncrementMs
                              /\ game'.whiteTimeMs = game.whiteTimeMs]_vars

(* C9 (amended): in a timed game both balances are >= 0, and a balance is 0 *)
(* only while the room is WAITING; from the join on both balances stay      *)
(* positive, also after a loss on time.                                     *)
C9_ZeroOnlyWhileWaiting ==
    game.timeInitialMs > 0 =>
        /\ game.whiteTimeMs >= 0 /\ game.blackTimeMs >= 0
        /\ (game.whiteTimeMs = 0 \/ game.blackTimeMs = 0) => game.status = "WAITING"

(* C9 (as stated): in a timed game both balances are >= 0, and if either is *)
(* 0 the status is FINISHED with the result favouring the other colour.     *)
C9_ZeroOnlyWhenLost ==
    game.timeInitialMs > 0 =>
        /\ game.whiteTimeMs >= 0 /\ game.blackTimeMs >= 0
        /\ game.whiteTimeMs = 0 => (game.status = "FINISHED" /\ game.result = "BLACK_WINS")
        /\ game.blackTimeMs = 0 => (game.status = "FINISHED" /\ game.result = "WHITE_WINS")

\* a move rejected on time has finished the game and the loser's balance is
\* still what the last deduction left
C9_Witness ==
    \E h \in Handlers :
        /\ hs[h].pc = "fin_archive" /\ hs[h].kind = "move" /\ hs[h].flag
        /\ game.timeInitialMs > 0 /\ game.status = "FINISHED"
        /\ game.result = WinnerIfLoses(hs[h].color)
        /\ game.whiteTimeMs > 0 /\ game.blackTimeMs > 0

(* C10 (amended): in a timed game with moveCount >= 1 accepted moves,       *)
(* whiteTimeMs + blackTimeMs <= 2*timeInitialMs + timeIncrementMs*moveCount. *)
C10_SumWithinIncrements ==
    (game.timeInitialMs > 0 /\ Len(moves) >= 1) =>
        game.whiteTimeMs + game.blackTimeMs
            <= 2 * game.timeInitialMs + game.timeIncrementMs * Len(moves)

(* C10 (as stated, epsilon = 0 on the model's clock): whiteTimeMs +         *)
(* blackTimeMs <= 2*timeInitialMs + timeIncrementMs*(moveCount - 1).        *)
C10_SumWithinIncrementsLessOne ==
    (game.timeInitialMs > 0 /\ Len(moves) >= 1) =>
        game.whiteTimeMs + game.blackTimeMs
            <= 2 * game.timeInitialMs + game.timeIncrementMs * (Len(moves) - 1)

\* two moves played within the tick of the join: the bound is met exactly
C10_Witness ==
    /\ game.timeInitialMs > 0 /\ game.timeIncrementMs > 0
    /\ Len(moves) = 2
    /\ game.whiteTimeMs + game.blackTimeMs
          = 2 * game.timeInitialMs + game.timeIncrementMs * Len(moves)

-----------------------------------------------------------------------------
(* The sweeper as a periodic job (startSweepJob: one pass at start, then    *)
(* one every SWEEP_INTERVAL_MS), on a room whose peers only ever close.     *)
(* A pass may fall at any instant; the job never stops, and time goes on.   *)
(* Instants are kept relative to an origin: when now has reached            *)
(* MaxSweepTime the origin moves forward by MaxSweepTime - 1, and with it   *)
(* the deadline of a live timer; a key whose EX has run out is gone.  The   *)
(* handlers of this specification read no other stored instant.             *)

MaxSweepTime == 4

TickSweep ==
    /\ IF now < MaxSweepTime
       THEN /\ now' = now + 1
            /\ UNCHANGED abandonment
       ELSE /\ now' = 2
            /\ abandonment' =
                 IF getAbandonmentInfo = NoTimer THEN NoTimer
                 ELSE [abandonment EXCEPT !.deadline = @ - (MaxSweepTime - 1)]
    /\ out' = {}
    /\ UNCHANGED <<ratelimit, heartbeat, rematchOffer, newRoom, game, seats, moves, drawOffer, archive,
                   calls, maker, hs, conn, hist>>

\* a pass of sweepZombieRooms reaches this room
SweepInterval(h) ==
    /\ hs[h].pc = "idle"
    /\ game.status = "IN_PROGRESS"
    /\ hs' = [hs EXCEPT ![h] = [IdleH EXCEPT !.pc = "z_conn", !.kind = "sweep"]]
    /\ out' = {}
    /\ UNCHANGED <<ratelimit, heartbeat, rematchOffer, newRoom, game, seats, moves, drawOffer, abandonment, archive, now,
                   calls, maker, conn, hist>>

\* a pass of sweepFinishedGames reaches this room
SweepIntervalFinished(h) ==
    /\ hs[h].pc = "idle"
    /\ game.status \in Terminal
    /\ hs' = [hs EXCEPT ![h] = [IdleH EXCEPT !.pc = "s_conn", !.kind = "sweep"]]
    /\ out' = {}
    /\ UNCHANGED <<ratelimit, heartbeat, rematchOffer, newRoom, game, seats, moves, drawOffer, abandonment, archive, now,
                   calls, maker, conn, hist>>

SweepJob ==
    \/ SweepInterval(1)
    \/ SweepZombieConn(1)
    \/ SweepZombieTimer(1)
    \/ SweepZombieSet(1)
    \/ SweepZombieAbn(1)
    \/ AbnSet(1)
    \/ AbnClear(1)
    \/ AbnArchive(1)
    \/ SweepIntervalFinished(1)
    \/ SweepFinishedConn(1)

CloseEvents ==
    \/ \E p \in Peers : CloseStart(1, p)
    \/ CloseGet(1)
    \/ CloseOff(1)
    \/ CloseTimer(1)
    \/ CloseArchive(1)
    \/ CloseDelete(1)

NextSweep == TickSweep \/ SweepJob \/ CloseEvents

SpecSweep ==
    /\ Init
    /\ [][NextSweep]_vars
    /\ WF_vars(TickSweep)
    /\ WF_vars(SweepJob)
    /\ WF_vars(CloseGet(1) \/ CloseOff(1) \/ CloseTimer(1) \/ CloseArchive(1) \/ CloseDelete(1))

-----------------------------------------------------------------------------
(* Attach and detach handled concurrently: a close event and a join frame   *)
(* (a page reload closes the old socket and joins on a new one), with the   *)
(* claim_win frame of the opponent.                                         *)

NextAttach ==
    \/ Tick
    \/ \E h \in Handlers, p \in Peers : CloseStart(h, p)
    \/ \E h \in Handlers : CloseGet(h)
    \/ \E h \in Handlers : CloseOff(h)
    \/ \E h \in Handlers : CloseTimer(h)
    \/ \E h \in Handlers : CloseArchive(h)
    \/ \E h \in Handlers : CloseDelete(h)
    \/ \E h \in Handlers, p \in Peers : JoinFrame(h, p)
    \/ \E h \in Handlers : JoinAbn(h)
    \/ \E h \in Handlers : JoinTimer(h)
    \/ \E h \in Handlers : JoinClear(h)
    \/ \E h \in Handlers : JoinConn(h)
    \/ \E h \in Handlers : JoinSetConn(h)
    \/ \E h \in Handlers : JoinState(h)
    \/ \E h \in Handlers : JoinSync(h)
    \/ \E h \in Handlers : AbnSet(h)
    \/ \E h \in Handlers : AbnClear(h)
    \/ \E h \in Handlers : AbnArchive(h)
    \/ \E h \in Handlers : FinSet(h)
    \/ \E h \in Handlers : FinArchive(h)
    \/ \E h \in Handlers, p \in Peers : ClaimWin(h, p)
    \/ \E h \in Handlers : ClaimWinArchive(h)

SpecAttach == Init /\ [][NextAttach]_vars

-----------------------------------------------------------------------------
(* handleRematchOffer / handleRematchAccept.  createRematchGame makes a     *)
(* room under a new random id with two new random tokens; newRoom holds the *)
(* two hashes of that room.                                                 *)

\* ClientData.token of a socket in the room's set: the cookie for the room
\* id of its last join frame
dataToken(p) == IF conn[p].state = "joined" THEN PeerToken(p) ELSE "other"

\* getGame and the checks: the record exists, is FINISHED, the sender's
\* token holds a seat
rematchGet(h, p, kind, pc) ==
    LET g == getGame
        color == tokenColor(PeerToken(p), g)
    IN IF ~g.exists \/ g.status # "FINISHED" \/ color = "none"
       THEN Idle(h) /\ out' = sendError(p)
       ELSE /\ hs' = [hs EXCEPT ![h] =
                 [IdleH EXCEPT !.pc = pc, !.kind = kind, !.peer = p,
                               !.color = color, !.snap = g.g,
                               !.whiteToken = g.whiteToken,
                               !.blackToken = g.blackToken]]
            /\ out' = {}

RematchOfferGet(h, p) ==
    /\ Free(h)
    /\ conn[p].state = "joined"
    /\ rematchGet(h, p, "rematch_offer", "ro_check")
    /\ UNCHANGED <<ratelimit, heartbeat, game, seats, moves, drawOffer, rematchOffer, newRoom,
                   abandonment, archive, now, calls, maker, conn>>
    /\ hist' = [hist EXCEPT !.frames = @ + 1]

\* getRematchOffer: own offer pending -> error; the opponent's ->
\* handleRematchAccept
RematchOfferCheck(h) ==
    /\ hs[h].pc = "ro_check"
    /\ IF rematchOffer = hs[h].color
       THEN Idle(h) /\ out' = sendError(hs[h].peer)
       ELSE /\ Goto(h, IF rematchOffer # "" THEN "ra_get" ELSE "ro_set")
            /\ out' = {}
    /\ UNCHANGED <<ratelimit, heartbeat, game, seats, moves, drawOffer, rematchOffer, newRoom,
                   abandonment, archive, now, calls, maker, conn, hist>>

\* setRematchOffer and the broadcast
RematchOfferSet(h) ==
    /\ hs[h].pc = "ro_set"
    /\ rematchOffer' = hs[h].color
    /\ out' = broadcastAll("rematch_offer")
    /\ Idle(h)
    /\ UNCHANGED <<ratelimit, heartbeat, game, seats, moves, drawOffer, newRoom, abandonment,
                   archive, now, calls, maker, conn, hist>>

RematchAcceptGet(h, p) ==
    /\ Free(h)
    /\ conn[p].state = "joined"
    /\ rematchGet(h, p, "rematch_accept", "ra_check")
    /\ UNCHANGED <<ratelimit, heartbeat, game, seats, moves, drawOffer, rematchOffer, newRoom,
                   abandonment, archive, now, calls, maker, conn>>
    /\ hist' = [hist EXCEPT !.frames = @ + 1]

\* handleRematchAccept entered from handleRematchOffer
RematchOfferAccept(h) ==
    /\ hs[h].pc = "ra_get"
    /\ rematchGet(h, hs[h].peer, "rematch_accept", "ra_check")
    /\ UNCHANGED <<ratelimit, heartbeat, game, seats, moves, drawOffer, rematchOffer, newRoom,
                   abandonment, archive, now, calls, maker, conn, hist>>

\* getRematchOffer: an offer by the opponent must be pending
RematchAcceptCheck(h) ==
    /\ hs[h].pc = "ra_check"
    /\ IF rematchOffer = "" \/ rematchOffer = hs[h].color
       THEN Idle(h) /\ out' = sendError(hs[h].peer)
       ELSE Goto(h, "ra_session") /\ out' = {}
    /\ UNCHANGED <<ratelimit, heartbeat, game, seats, moves, drawOffer, rematchOffer, newRoom,
                   abandonment, archive, now, calls, maker, conn, hist>>

\* createRematchGame with the old record's time control: HSET of the session
RematchSession(h) ==
    /\ hs[h].pc = "ra_session"
    /\ newRoom' = [game |-> createRematchSession(
                               [initial |-> hs[h].snap.timeInitialMs,
                                increment |-> hs[h].snap.timeIncrementMs], now),
                   seats |-> NoSeats]
    /\ Goto(h, "ra_seats")
    /\ out' = {}
    /\ UNCHANGED <<ratelimit, heartbeat, game, seats, moves, drawOffer, rematchOffer, abandonment,
                   archive, now, calls, maker, conn, hist>>

\* createRematchGame: HSET of the seats
RematchSeats(h) ==
    /\ hs[h].pc = "ra_seats"
    /\ newRoom' = [newRoom EXCEPT !.seats = createRematchSeats]
    /\ Goto(h, "ra_clear")
    /\ out' = {}
    /\ UNCHANGED <<ratelimit, heartbeat, game, seats, moves, drawOffer, rematchOffer, abandonment,
                   archive, now, calls, maker, conn, hist>>

\* clearRematchOffer
RematchClear(h) ==
    /\ hs[h].pc = "ra_clear"
    /\ rematchOffer' = ""
    /\ Goto(h, "ra_send")
    /\ out' = {}
    /\ UNCHANGED <<ratelimit, heartbeat, game, seats, moves, drawOffer, newRoom, abandonment,
                   archive, now, calls, maker, conn, hist>>

\* (variant: each player is sent the token of the colour it had)
rematchTokenSameColor(oldToken, whiteToken, blackToken) ==
    IF oldToken = whiteToken THEN createRematchSeats.whiteToken
    ELSE IF oldToken = blackToken THEN createRematchSeats.blackToken
    ELSE ""

\* newToken of a client: the new black token for the old white token, the
\* new white token for the old black token, none otherwise
rematchToken(oldToken, whiteToken, blackToken) ==
    IF oldToken = whiteToken THEN createRematchSeats.blackToken
    ELSE IF oldToken = blackToken THEN createRematchSeats.whiteToken
    ELSE ""

\* rematch_accepted to every open client of the room, each with its token
RematchSend(h) ==
    /\ hs[h].pc = "ra_send"
    /\ out' = {[type |-> "rematch_accepted", to |-> p,
                token |-> rematchToken(dataToken(p), hs[h].whiteToken,
                                       hs[h].blackToken)] : p \in Room}
    /\ Goto(h, "ra_delete")
    /\ UNCHANGED <<ratelimit, heartbeat, game, seats, moves, drawOffer, rematchOffer, newRoom,
                   abandonment, archive, now, calls, maker, conn, hist>>

\* deleteGame(gameId)
RematchDelete(h) ==
    /\ hs[h].pc = "ra_delete"
    /\ DeleteGame
    /\ Idle(h)
    /\ out' = {}
    /\ UNCHANGED <<ratelimit, heartbeat, newRoom, archive, now, calls, maker, conn, hist>>

\* a game is resigned and the rematch frames that follow, handled
\* concurrently with the handler that ended the game
NextRematch ==
    \/ \E h \in Handlers, p \in Peers : ResignGet(h, p)
    \/ \E h \in Handlers : FinSet(h)
    \/ \E h \in Handlers : FinClearDraw(h)
    \/ \E h \in Handlers : FinArchive(h)
    \/ \E h \in Handlers, p \in Peers : RematchOfferGet(h, p)
    \/ \E h \in Handlers : RematchOfferCheck(h)
    \/ \E h \in Handlers : RematchOfferSet(h)
    \/ \E h \in Handlers, p \in Peers : RematchAcceptGet(h, p)
    \/ \E h \in Handlers : RematchOfferAccept(h)
    \/ \E h \in Handlers : RematchAcceptCheck(h)
    \/ \E h \in Handlers : RematchSession(h)
    \/ \E h \in Handlers : RematchSeats(h)
    \/ \E h \in Handlers : RematchClear(h)
    \/ \E h \in Handlers : RematchSend(h)
    \/ \E h \in Handlers : RematchDelete(h)

SpecRematch == Init /\ [][NextRematch]_vars

-----------------------------------------------------------------------------
(* The end of a room's life: the room is joined over HTTP, peers attach,    *)
(* resign and detach, and the sweeper passes for ever.  One handler at a    *)
(* time; a handler that has started runs to its end, and so does a pass.    *)

\* the steps that continue a frame handler or a close handler
HandlerSteps ==
    \/ JoinAbn(1)
    \/ JoinTimer(1)
    \/ JoinClear(1)
    \/ JoinConn(1)
    \/ JoinSetConn(1)
    \/ JoinState(1)
    \/ JoinSync(1)
    \/ AbnSet(1)
    \/ AbnClear(1)
    \/ AbnArchive(1)
    \/ FinSet(1)
    \/ FinClearDraw(1)
    \/ FinArchive(1)
    \/ CloseGet(1)
    \/ CloseOff(1)
    \/ CloseTimer(1)
    \/ CloseArchive(1)
    \/ CloseDelete(1)

SweepSteps ==
    \/ SweepInterval(1)
    \/ SweepZombieConn(1)
    \/ SweepZombieTimer(1)
    \/ SweepZombieSet(1)
    \/ SweepZombieAbn(1)
    \/ SweepIntervalFinished(1)
    \/ SweepFinishedConn(1)

NextEnd ==
    \/ Tick
    \/ JoinGetGame(1)
    \/ JoinGetSeats(1)
    \/ JoinEval(1)
    \/ \E p \in Peers : JoinFrame(1, p)
    \/ \E p \in Peers : ResignGet(1, p)
    \/ \E p \in Peers : CloseStart(1, p)
    \/ HandlerSteps
    \/ SweepSteps

SpecEnd ==
    /\ Init
    /\ [][NextEnd]_vars
    /\ WF_vars(HandlerSteps)
    /\ WF_vars(SweepSteps)

-----------------------------------------------------------------------------
(* archiveGame and archiveAndDeleteGame step by step, called concurrently   *)
(* on a room that has ended: by the handler that ended the game             *)
(* (archiveGame), by a close handler and by the sweeper                     *)
(* (archiveAndDeleteGame).  The archive table has a unique key on id:       *)
(* prisma.game.create on an id that has a row throws (P2002).               *)

IdleArchive == [pc |-> "idle", kind |-> "none", status |-> "NONE", result |-> "",
                moves |-> 0, ret |-> "none"]

\* what follows archiveGame in its caller: archiveAndDeleteGame goes on to
\* deleteGame, archiveGame returns
archiveReturn(call) ==
    IF call.kind = "archiveAndDeleteGame"
    THEN [call EXCEPT !.pc = "a_delete"]
    ELSE [call EXCEPT !.pc = "done", !.ret = "ok"]

ArchiveStart(c, kind) ==
    /\ calls[c].pc = "idle"
    /\ calls' = [calls EXCEPT ![c] = [IdleArchive EXCEPT !.pc = "a_get", !.kind = kind]]
    /\ out' = {}
    /\ UNCHANGED <<ratelimit, heartbeat, rematchOffer, newRoom, game, seats, moves, drawOffer, abandonment, archive, now,
                   maker, hs, conn, hist>>

\* getGame; return unless the status is FINISHED or ABANDONED
ArchiveGetGame(c) ==
    /\ calls[c].pc = "a_get"
    /\ calls' = [calls EXCEPT ![c] =
         IF getGame.status \in Terminal
         THEN [@ EXCEPT !.pc = "a_moves", !.status = game.status,
                        !.result = game.result]
         ELSE archiveReturn(@)]
    /\ out' = {}
    /\ UNCHANGED <<ratelimit, heartbeat, rematchOffer, newRoom, game, seats, moves, drawOffer, abandonment, archive, now,
                   maker, hs, conn, hist>>

\* getMoves
ArchiveGetMoves(c) ==
    /\ calls[c].pc = "a_moves"
    /\ calls' = [calls EXCEPT ![c] = [@ EXCEPT !.pc = "a_find", !.moves = Len(moves)]]
    /\ out' = {}
    /\ UNCHANGED <<ratelimit, heartbeat, rematchOffer, newRoom, game, seats, moves, drawOffer, abandonment, archive, now,
                   maker, hs, conn, hist>>

\* prisma.game.findUnique; return if a row exists
ArchiveFindUnique(c) ==
    /\ calls[c].pc = "a_find"
    /\ calls' = [calls EXCEPT ![c] =
         IF archive # <<>> THEN archiveReturn(@) ELSE [@ EXCEPT !.pc = "a_create"]]
    /\ out' = {}
    /\ UNCHANGED <<ratelimit, heartbeat, rematchOffer, newRoom, game, seats, moves, drawOffer, abandonment, archive, now,
                   maker, hs, conn, hist>>

\* prisma.game.create on an id that has a row: the rejection is not caught,
\* the call (and archiveAndDeleteGame around it) rejects
archiveCreateThrown(call) == [call EXCEPT !.pc = "done", !.ret = "error"]

\* prisma.game.create
ArchiveCreate(c) ==
    /\ calls[c].pc = "a_create"
    /\ IF archive = <<>>
       THEN /\ archive' = <<[status |-> calls[c].status, result |-> calls[c].result,
                              moves |-> calls[c].moves]>>
            /\ calls' = [calls EXCEPT ![c] = archiveReturn(@)]
       ELSE /\ calls' = [calls EXCEPT ![c] = archiveCreateThrown(@)]
            /\ UNCHANGED archive
    /\ out' = {}
    /\ UNCHANGED <<ratelimit, heartbeat, rematchOffer, newRoom, game, seats, moves, drawOffer, abandonment, now,
                   maker, hs, conn, hist>>

\* archiveAndDeleteGame: deleteGame
ArchiveDelete(c) ==
    /\ calls[c].pc = "a_delete"
    /\ DeleteGame
    /\ calls' = [calls EXCEPT ![c] = [@ EXCEPT !.pc = "done", !.ret = "ok"]]
    /\ out' = {}
    /\ UNCHANGED <<ratelimit, heartbeat, newRoom, archive, now, maker, hs, conn, hist>>

\* a room that has just ended, everybody detached, not yet archived
InitArchive ==
    /\ \E tc \in TimeControls, result \in {"WHITE_WINS", "DRAW"} :
         \/ game = setGameResult(JoinedGame(tc), result)
         \/ result # "DRAW" /\ game = setGameAbandoned(JoinedGame(tc), result)
    /\ seats = [whiteToken |-> "creator", blackToken |-> "joiner1",
                whiteConnected |-> FALSE, blackConnected |-> FALSE]
    /\ conn = [p \in Peers |-> [state |-> "closed", color |-> "none"]]
    /\ moves = <<>>
    /\ drawOffer = ""
    /\ rematchOffer = ""
    /\ newRoom = NoRoom
    /\ abandonment = NoTimer
    /\ archive = <<>>
    /\ now = 1
    /\ calls = [c \in Callers |-> IdleArchive]
    /\ maker = [kind |-> "createGame", pc |-> "done"]
    /\ hs = [h \in Handlers |-> IdleH]
    /\ out = {}
    /\ hist = NoHist
    /\ ratelimit = NoRate
    /\ heartbeat = [p \in Peers |-> ClientAlive]

NextArchive ==
    \/ \E c \in Callers, kind \in {"archiveGame", "archiveAndDeleteGame"} :
         ArchiveStart(c, kind)
    \/ \E c \in Callers : ArchiveGetGame(c)
    \/ \E c \in Callers : ArchiveGetMoves(c)
    \/ \E c \in Callers : ArchiveFindUnique(c)
    \/ \E c \in Callers : ArchiveCreate(c)
    \/ \E c \in Callers : ArchiveDelete(c)

SpecArchive == InitArchive /\ [][NextArchive]_vars

-----------------------------------------------------------------------------
\* the side to move's balance minus (nowMs - lastMoveAt), on a room record
sideToMoveRemaining(g, nowMs) == deductRemaining(g, g.currentFen.turn, nowMs)

timedInProgress(g) == g.timeInitialMs > 0 /\ g.status = "IN_PROGRESS"

\* the colour of the seat a peer's bearer token holds in this room
seatOf(p) == tokenColor(PeerToken(p), getGame)

\* a peer with an open socket whose last join frame named this room
Attached(p) == conn[p].state = "joined"

C12_FlagIffSideToMoveExpired ==
    [][/\ \A p \in Peers :
            ( /\ FlagGet(1, p) /\ Attached(p) /\ timedInProgress(game)
              /\ sideToMoveRemaining(game, now) <= 0 )
            => hs'[1].pc = "f_check"
       /\ \A h \in Handlers :
            (hs[h].kind = "flag" /\ hs[h].pc = "f_check" /\ hs'[h].pc # "f_check"
             /\ timedInProgress(game))
            => ( ( /\ hs'[h].pc = "fin_set"
                   /\ hs'[h].res = WinnerIfLoses(game.currentFen.turn) )
                 <=> sideToMoveRemaining(game, hs[h].t) <= 0 )
      ]_vars

(* C13: claim_win moves a room to ABANDONED with the claimant as winner     *)
(* only if, at that instant, the game is timed and IN_PROGRESS, a timer     *)
(* exists, the claimant holds the seat opposite to the timer's disconnected *)
(* colour, the deadline has passed and the disconnected colour is still     *)
(* disconnected; when a condition fails the sender gets an error and the    *)
(* room is unchanged.                                                       *)
C13_ClaimWinOnlyWhenDue ==
    [][\A p \in Peers :
        ClaimWin(1, p) =>
          IF /\ timedInProgress(game)
             /\ getAbandonmentInfo # NoTimer
             /\ seatOf(p) \in Colors
             /\ getAbandonmentInfo.disconnectedColor = Other(seatOf(p))
             /\ now >= getAbandonmentInfo.deadline
             /\ ~connectedBit(Other(seatOf(p)))
          THEN game'.status = "ABANDONED" => game'.result = WinnerIfLoses(Other(seatOf(p)))
          ELSE /\ [type |-> "error", to |-> p] \in out'
               /\ UNCHANGED <<ratelimit, heartbeat, game, seats, moves, drawOffer, abandonment, archive>>
      ]_vars

(* C14: in a timed game, after colour C disconnected, a claim_win sent by   *)
(* C's opponent at any time at or after the claim deadline succeeds (the    *)
(* room becomes ABANDONED with the claimant as winner) as long as C has not *)
(* re-attached, however long after the deadline it is sent.                 *)
C14_ClaimAfterDeadlineSucceeds ==
    [][\A p \in Peers :
        ( /\ ClaimWin(1, p)
          /\ Attached(p) /\ seatOf(p) \in Colors
          /\ timedInProgress(game)
          /\ abandonment.disconnectedColor = Other(seatOf(p))
          /\ now >= abandonment.deadline
          /\ ~connectedBit(Other(seatOf(p)))
          /\ \A q \in Peers : seatOf(q) = Other(seatOf(p)) => conn[q].state = "closed" )
        => /\ game'.status = "ABANDONED"
           /\ game'.result = WinnerIfLoses(Other(seatOf(p)))
      ]_vars

(* C16: in a timed game the step IN_PROGRESS -> ABANDONED is taken only by  *)
(* a successful claim_win; the abandonment check of the join and move       *)
(* handlers and of the sweeper never takes it.                              *)
C16_TimedAbandonOnlyByClaim ==
    [][(timedInProgress(game) /\ game'.status = "ABANDONED")
        => \E p \in Peers : ClaimWin(1, p)
      ]_vars

(* C18: whenever no handler is in flight, whiteConnected (blackConnected)   *)
(* is true if and only if a peer attached to the room has role white        *)
(* (black).                                                                 *)
C18_ConnectedBitIsMembership ==
    ( /\ \A h \in Handlers : hs[h].pc = "idle"
      /\ \A c \in Callers : calls[c].pc \in {"idle", "done"}
      /\ game.status # "NONE" )
    => \A color \in Colors :
         connectedBit(color) <=> \E p \in Peers : Attached(p) /\ conn[p].color = color

(* C19: a peer whose bearer token matches neither seat never changes the    *)
(* room's record, move log, clocks, offers, connected bits or abandonment   *)
(* timer by the frames it sends or by closing, other than through the       *)
(* server's own check of an expired clock or abandonment deadline.          *)
C19_SpectatorChangesNothing ==
    [][\A h \in Handlers, p \in Peers :
        ( /\ seatOf(p) = "none"
          /\ hs'[h] # hs[h]
          /\ hs[h].peer = p \/ hs'[h].peer = p
          /\ hs[h].pc \notin {"abn_set", "abn_clear", "abn_archive", "fin_set"} )
        => UNCHANGED <<ratelimit, heartbeat, game, seats, moves, drawOffer, abandonment>>
      ]_vars

(* C20: once a peer's connection has closed and its close handler has       *)
(* completed, the peer is in no room's membership set.                      *)
C20_ClosedPeerInNoRoom ==
    \A p \in Peers :
        (conn[p].state \notin {"joined", "moved", "elsewhere"}
         /\ \A h \in Handlers : hs[h].peer # p)
        => p \notin RoomSet

(* C15: once the disconnected colour has re-attached (join frame with its   *)
(* token, handled to the end) the timer of that disconnect is gone and its  *)
(* connected bit is true, so that no later claim_win or abandonment check   *)
(* ends the game against it: the room never becomes ABANDONED with the      *)
(* result against a colour whose peer is attached with no handler of its    *)
(* own in flight.                                                           *)
C15_ReattachedIsNotAbandoned ==
    [][(game.status = "IN_PROGRESS" /\ game'.status = "ABANDONED")
        => \A p \in Peers :
             ( /\ Attached(p) /\ seatOf(p) \in Colors
               /\ \A h \in Handlers : hs[h].peer # p )
             => game'.result # WinnerIfLoses(seatOf(p))
      ]_vars

(* C17: in an untimed IN_PROGRESS game whose colour C disconnected and does *)
(* not re-attach, with C's opponent still attached and silent, the sweeper  *)
(* alone eventually sets the game ABANDONED with C's opponent as winner and *)
(* archives it, and the game is never abandoned before the deadline.        *)
C17_SweeperAbandonsUntimed ==
    /\ \A c \in Colors :
         [](( /\ game.timeInitialMs = 0 /\ game.status = "IN_PROGRESS"
              /\ abandonment.disconnectedColor = c
              /\ abandonment.deadline + ABANDONMENT_KEY_MARGIN <= MaxSweepTime
              /\ now < abandonment.deadline )
            => <>( \/ /\ game.status \in {"ABANDONED", "NONE"}
                      /\ archive # <<>>
                      /\ archive[1].result = WinnerIfLoses(c)
                   \/ \E p \in Peers : seatOf(p) = Other(c) /\ ~Attached(p) ))
    /\ [][(game.status = "IN_PROGRESS" /\ game'.status = "ABANDONED")
           => now >= abandonment.deadline]_vars

(* C21: when the creator's connection to a WAITING room closes, the close   *)
(* handler deletes the game record if and only if no peer remains attached  *)
(* to the room (no open socket is left in the room's set), and once it has  *)
(* deleted it getGame returns null.                                         *)
C21_CreatorCloseDeletesIffEmpty ==
    [][\A h \in Handlers :
        /\ ( /\ hs[h].kind = "close" /\ hs[h].peer = "W" /\ hs[h].pc = "c_get"
             /\ hs'[h] # hs[h]
             /\ game.status = "WAITING" )
           => (hs'[h].pc = "c_delete" <=> Room = {})
        /\ (hs[h].kind = "close" /\ hs[h].pc = "c_delete" /\ hs'[h].pc = "idle")
           => ~getGame'.exists
      ]_vars

(* C22: if both players of an IN_PROGRESS room (timed or untimed) are       *)
(* disconnected and neither re-attaches, then under a fair periodic sweeper *)
(* the room eventually becomes ABANDONED and is archived; and the timer the *)
(* sweeper records when it found both connected bits false and no timer has *)
(* disconnectedColor = white.                                               *)
C22_SweeperAbandonsZombie ==
    /\ []( ( /\ game.status = "IN_PROGRESS"
             /\ ~seats.whiteConnected /\ ~seats.blackConnected
             /\ ~Attached("W") /\ ~Attached("B") )
           => <>( /\ game.status \in {"ABANDONED", "NONE"}
                  /\ archive # <<>>
                  /\ archive[1].status = "ABANDONED" ) )
    /\ [][(hs[1].pc = "z_set" /\ hs'[1].pc # "z_set")
           => abandonment'.disconnectedColor = "white"]_vars

(* C23: every room that reaches FINISHED or ABANDONED is eventually written *)
(* to the archive and removed from the hot store once no peer remains       *)
(* attached (by the close handler of the last peer to detach or by a later  *)
(* sweeper pass), whoever was the last peer to detach.                      *)
C23_TerminalIsArchivedAndRemoved ==
    []( ( /\ game.status \in Terminal
          /\ \A p \in Peers : conn[p].state = "closed" )
        => <>( \/ game.status = "NONE" /\ archive # <<>>
               \/ \E p \in Peers : Attached(p) ) )

(* C24: the archive holds at most one row for the room id however many      *)
(* times archiveGame or archiveAndDeleteGame run for it, one after another  *)
(* or concurrently, and every such call returns without error.              *)
C24_ArchiveIsIdempotent ==
    /\ Len(archive) <= 1
    /\ \A c \in Callers : calls[c].ret # "error"

(* C25: the hot record of a room whose status is FINISHED or ABANDONED is   *)
(* never deleted unless an archive row for the room already exists, also    *)
(* when rematch_accept deletes it while the handler that finished the game  *)
(* has not yet written the archive.                                         *)
C25_DeleteOnlyAfterArchive ==
    [][(game.status \in Terminal /\ game'.status = "NONE") => archive # <<>>]_vars

(* C26: in an IN_PROGRESS room a draw_offer by player X is recorded (and    *)
(* broadcast as draw_offer) only when no offer is pending; when X's         *)
(* opponent's offer is pending the frame is handled as draw_accept, and     *)
(* when X's own offer is pending the sender gets an error and nothing       *)
(* changes; also when both players send draw_offer concurrently.            *)
C26_OneDrawOfferPending ==
    [][\A h \in Handlers :
        /\ (hs[h].pc = "do_set" /\ hs'[h].pc # "do_set")
           => /\ drawOffer = ""
              /\ drawOffer' = hs[h].color
              /\ out' = broadcastAll("draw_offer")
        /\ (hs[h].pc = "do_check" /\ hs'[h].pc # "do_check"
            /\ drawOffer = Other(hs[h].color))
           => hs'[h].pc = "da_get"
        /\ (hs[h].pc = "do_check" /\ hs'[h].pc # "do_check"
            /\ drawOffer = hs[h].color)
           => /\ out' = sendError(hs[h].peer)
              /\ hs'[h].pc = "idle"
              /\ UNCHANGED <<ratelimit, heartbeat, game, seats, moves, drawOffer, abandonment, archive>>
      ]_vars

C28_OffersMatchStatus ==
    (\A h \in Handlers : hs[h].pc = "idle")
    => /\ drawOffer # "" => game.status = "IN_PROGRESS"
       /\ rematchOffer # "" => game.status = "FINISHED"

(* C29: when a rematch_accept succeeds on a FINISHED room whose seats it    *)
(* read as white token W and black token B (no other accept under way), a   *)
(* new IN_PROGRESS room at the initial position exists, the peer holding W  *)
(* is sent the new room's black token, the peer holding B its white token,  *)
(* every other attached peer no token, and the old record is deleted        *)
(* afterwards.                                                              *)
C29_RematchSwapsColors ==
    [][\A h \in Handlers :
        /\ ( /\ hs[h].kind = "rematch_accept"
             /\ hs[h].pc = "ra_send" /\ hs'[h].pc # "ra_send"
             /\ \A k \in Handlers \ {h} : hs[k].kind # "rematch_accept" )
           => /\ hs[h].whiteToken = "creator" /\ hs[h].blackToken = "joiner1"
              /\ newRoom.game.status = "IN_PROGRESS"
              /\ newRoom.game.currentFen = INITIAL_FEN
              /\ newRoom.seats.whiteToken # ""
              /\ newRoom.seats.blackToken # ""
              /\ newRoom.seats.whiteToken # newRoom.seats.blackToken
              /\ \A p \in Peers :
                   {f \in out' : f.to = p} =
                     IF ~Attached(p) THEN {}
                     ELSE {[type |-> "rematch_accepted", to |-> p,
                            token |-> IF PeerToken(p) = hs[h].whiteToken
                                      THEN newRoom.seats.blackToken
                                      ELSE IF PeerToken(p) = hs[h].blackToken
                                      THEN newRoom.seats.whiteToken
                                      ELSE ""]}
              /\ hs'[h].pc = "ra_delete"
        /\ ( /\ hs[h].kind = "rematch_accept"
             /\ hs[h].pc = "ra_delete" /\ hs'[h].pc # "ra_delete" )
           => ~getGame'.exists
      ]_vars

\* a rematch_accept has just sent rematch_accepted: White got the new black
\* token, Black the new white token, the spectator none
C29_Witness ==
    /\ \E h \in Handlers : hs[h].kind = "rematch_accept" /\ hs[h].pc = "ra_delete"
    /\ game.status = "FINISHED"
    /\ newRoom.game.status = "IN_PROGRESS"
    /\ [type |-> "rematch_accepted", to |-> "W",
        token |-> newRoom.seats.blackToken] \in out
    /\ [type |-> "rematch_accepted", to |-> "B",
        token |-> newRoom.seats.whiteToken] \in out
    /\ [type |-> "rematch_accepted", to |-> "S", token |-> ""] \in out

-----------------------------------------------------------------------------
(* ws.on("message"): checkMessageSize, JSON.parse, validateMessage and the  *)
(* switch on msg.type.  A frame is the Buffer the socket delivered: `bytes` *)
(* is its size, `length` the length of raw.toString() (UTF-16 code units:   *)
(* a character outside ASCII takes two to four bytes and one or two units), *)
(* `parses` whether JSON.parse returns, and `data` the value it returns.    *)
(* data.extra says that the object has a key besides type, gameId, from,    *)
(* to and promotion.  A game id is kept as its length, the lengths of its   *)
(* pieces between dashes and whether every piece is made of hex digits; a   *)
(* square as its characters.                                                *)

MAX_MESSAGE_SIZE == 1024
MAX_GAME_ID_LENGTH == 36
MAX_TYPE_LENGTH == 20

VALID_MESSAGE_TYPES ==
    {"join", "move", "resign", "draw_offer", "draw_accept", "draw_decline",
     "draw_cancel", "rematch_offer", "rematch_accept", "rematch_cancel",
     "flag", "claim_win"}

isValidSquare(square) ==
    /\ square.typeof = "string"
    /\ Len(square.value) = 2
    /\ square.value[1] \in {"a", "b", "c", "d", "e", "f", "g", "h"}
    /\ square.value[2] \in {"1", "2", "3", "4", "5", "6", "7", "8"}

isValidPromotion(promotion) ==
    \/ promotion.typeof = "undefined"
    \/ promotion.typeof = "string" /\ promotion.value \in {"q", "r", "b", "n"}

\* /^[0-9a-f]{8}-[0-9a-f]{4}-[0-9a-f]{4}-[0-9a-f]{4}-[0-9a-f]{12}$/i
UUID_REGEX(id) == id.pieces = <<8, 4, 4, 4, 12>> /\ id.hex

isValidGameId(gameId) ==
    /\ gameId.typeof = "string"
    /\ ~(gameId.value.length = 0 \/ gameId.value.length > MAX_GAME_ID_LENGTH)
    /\ UUID_REGEX(gameId.value)

\* null, or the error text
checkMessageSize(rawString) ==
    IF rawString.length > MAX_MESSAGE_SIZE THEN "Message too large" ELSE "null"

\* the checks in the order of the code; the validated message carries the
\* type and the whitelisted fields only
validateMessage(data) ==
    LET invalid(error) == [valid |-> FALSE, error |-> error, type |-> ""]
        type == data.type.value
    IN IF data.isNull THEN invalid("Message is null or undefined")
       ELSE IF data.typeof # "object" \/ data.isArray
       THEN invalid("Message must be an object")
       ELSE IF data.type.typeof # "string"
       THEN invalid("Message must have a string type field")
       ELSE IF Len(type) > MAX_TYPE_LENGTH THEN invalid("Message type too long")
       ELSE IF type \in {"__proto__", "constructor", "prototype"}
       THEN invalid("Invalid message type")
       ELSE IF type \notin VALID_MESSAGE_TYPES THEN invalid("Unknown message type")
       ELSE IF type = "join" /\ ~isValidGameId(data.gameId)
       THEN invalid("join message requires valid gameId")
       ELSE IF type = "move" /\ ~isValidSquare(data.from)
       THEN invalid("move message requires valid from square")
       ELSE IF type = "move" /\ ~isValidSquare(data.to)
       THEN invalid("move message requires valid to square")
       ELSE IF type = "move" /\ ~isValidPromotion(data.promotion)
       THEN invalid("move message has invalid promotion")
       ELSE [valid |-> TRUE, error |-> "", type |-> type]

\* the frames a client sends
RawFrames ==
    LET undefined == [typeof |-> "undefined", value |-> ""]
        str(s) == [typeof |-> "string", value |-> s]
        number == [typeof |-> "number", value |-> "123"]
        noId == [typeof |-> "undefined",
                 value |-> [length |-> 0, pieces |-> <<>>, hex |-> FALSE]]
        id(n, pieces, hex) ==
            [typeof |-> "string",
             value |-> [length |-> n, pieces |-> pieces, hex |-> hex]]
        numberId == [noId EXCEPT !.typeof = "number"]
        roomId == id(36, <<8, 4, 4, 4, 12>>, TRUE)
        noSq == [typeof |-> "undefined", value |-> <<>>]
        sq(cs) == [typeof |-> "string", value |-> cs]
        object(type, gameId, from, to, promotion, extra) ==
            [typeof |-> "object", isNull |-> FALSE, isArray |-> FALSE,
             type |-> type, gameId |-> gameId, from |-> from, to |-> to,
             promotion |-> promotion, extra |-> extra]
        simple(type) == object(type, noId, noSq, noSq, undefined, FALSE)
        empty == simple(undefined)
        join(gameId) == object(str("join"), gameId, noSq, noSq, undefined, FALSE)
        move(from, to, promotion) ==
            object(str("move"), noId, from, to, promotion, FALSE)
        values ==
            {[empty EXCEPT !.isNull = TRUE],
             [empty EXCEPT !.typeof = "string"],
             [empty EXCEPT !.typeof = "number"],
             [empty EXCEPT !.isArray = TRUE],
             empty, simple(number)}
            \cup {simple(str(t)) : t \in VALID_MESSAGE_TYPES \ {"join", "move"}}
            \cup {simple(str(t)) : t \in {"unknown_type", "__proto__", "constructor",
                                          "prototype", "aaaaaaaaaaaaaaaaaaaaa"}}
            \cup {join(g) : g \in {noId, numberId, roomId,
                                   id(0, <<0>>, TRUE),
                                   id(12, <<12>>, FALSE),
                                   id(37, <<8, 4, 4, 4, 13>>, TRUE)}}
            \cup {move(sq(<<"e", "2">>), sq(<<"e", "4">>), undefined),
                  move(noSq, sq(<<"e", "4">>), undefined),
                  move(sq(<<"e", "2">>), noSq, undefined),
                  move(sq(<<"z", "9">>), sq(<<"e", "4">>), undefined),
                  move(sq(<<"e", "2">>), sq(<<"i", "n", "v">>), undefined),
                  move(sq(<<"e", "7">>), sq(<<"e", "8">>), str("q")),
                  move(sq(<<"e", "7">>), sq(<<"e", "8">>), str("k")),
                  move(sq(<<"e", "7">>), sq(<<"e", "8">>), number)}
            \cup {[simple(str("resign")) EXCEPT !.extra = TRUE],
                  [join(roomId) EXCEPT !.extra = TRUE]}
        sized == {simple(str("resign")), join(roomId),
                  [simple(str("resign")) EXCEPT !.extra = TRUE]}
    IN {[bytes |-> MAX_MESSAGE_SIZE, length |-> MAX_MESSAGE_SIZE,
         parses |-> TRUE, data |-> v] : v \in values}
       \cup {[bytes |-> 20, length |-> 20, parses |-> FALSE, data |-> empty]}
       \cup {[bytes |-> MAX_MESSAGE_SIZE + 1, length |-> n,
              parses |-> TRUE, data |-> v] :
                n \in {MAX_MESSAGE_SIZE, MAX_MESSAGE_SIZE + 1}, v \in sized}

\* wss.on("connection"): clientData with gameId, token and playerColor null
Connect(p) ==
    /\ conn[p].state = "closed"
    /\ conn' = [conn EXCEPT ![p] = [state |-> "open", color |-> "none"]]
    /\ heartbeat' = [heartbeat EXCEPT ![p] = ClientAlive]
    /\ out' = {}
    /\ UNCHANGED <<ratelimit, game, seats, moves, drawOffer, rematchOffer, newRoom, abandonment,
                   archive, now, calls, maker, hs, hist>>

\* ws.on("close") of a connection that never joined: if (!data?.gameId) return
Disconnect(p) ==
    /\ conn[p].state = "open"
    /\ conn' = [conn EXCEPT ![p] = [state |-> "closed", color |-> "none"]]
    /\ out' = {}
    /\ UNCHANGED <<ratelimit, heartbeat, game, seats, moves, drawOffer, rematchOffer, newRoom, abandonment,
                   archive, now, calls, maker, hs, hist>>

\* the handler the frame is given to, or the text of the error frame
dispatch(raw, dataGameId) ==
    LET error(message) == [handler |-> "error", message |-> message]
        result == validateMessage(raw.data)
    IN IF checkMessageSize(raw) # "null" THEN error(checkMessageSize(raw))
       ELSE IF ~raw.parses THEN error("Invalid JSON")
       ELSE IF ~result.valid THEN error(result.error)
       ELSE IF result.type = "join" THEN [handler |-> "handleJoin", message |-> ""]
       ELSE IF dataGameId THEN [handler |-> result.type, message |-> ""]
       ELSE error("Not joined to a game")

\* one frame of an open connection; of the handlers, handleJoin and
\* handleResign are followed here, one at a time, while the frames that are
\* answered at once arrive at any moment
Message(h, p, raw) ==
    /\ conn[p].state \in {"open", "joined"}
    /\ LET to == dispatch(raw, conn[p].state = "joined")
       IN IF to.handler = "error"
          THEN /\ out' = sendError(p)
               /\ UNCHANGED <<ratelimit, heartbeat, game, seats, moves, drawOffer, rematchOffer, newRoom,
                              abandonment, archive, now, calls, maker, hs, conn,
                              hist>>
          ELSE IF to.handler = "handleJoin" THEN JoinFrame(h, p)
          ELSE to.handler = "resign" /\ ResignGet(h, p)

NextDispatch ==
    \/ \E p \in Peers : Connect(p)
    \/ \E p \in Peers : Disconnect(p)
    \/ \E p \in Peers, raw \in RawFrames : Message(1, p, raw)
    \/ \E p \in Peers : CloseStart(1, p)
    \/ CloseGet(1)
    \/ CloseOff(1)
    \/ CloseTimer(1)
    \/ CloseArchive(1)
    \/ CloseDelete(1)
    \/ JoinAbn(1)
    \/ JoinTimer(1)
    \/ JoinClear(1)
    \/ JoinConn(1)
    \/ JoinSetConn(1)
    \/ JoinState(1)
    \/ JoinSync(1)
    \/ FinSet(1)
    \/ FinClearDraw(1)
    \/ FinArchive(1)

SpecDispatch == Init /\ [][NextDispatch]_vars

\* a frame of the protocol: a JSON object whose type is one of the twelve,
\* with that type's fields and no other
wellFormedFrame(data) ==
    /\ data.typeof = "object" /\ ~data.isNull /\ ~data.isArray
    /\ data.type.typeof = "string"
    /\ data.type.value \in VALID_MESSAGE_TYPES
    /\ ~data.extra
    /\ data.type.value = "join" => isValidGameId(data.gameId)
    /\ data.type.value = "move" =>
         /\ isValidSquare(data.from) /\ isValidSquare(data.to)
         /\ isValidPromotion(data.promotion)

\* the frames the dispatcher is to refuse when peer p sends them
refusedFrame(raw, p) ==
    \/ raw.bytes > MAX_MESSAGE_SIZE
    \/ ~raw.parses
    \/ ~wellFormedFrame(raw.data)
    \/ raw.data.type.value # "join" /\ conn[p].state = "open"

(* C30: a frame that is larger than 1024 bytes, is not JSON, is not a frame *)
(* of the protocol, or is of a type other than join on a connection that    *)
(* has not joined, is answered with one error frame to its sender and       *)
(* nothing else: no frame to anyone else, no change of the room's records,  *)
(* of the handlers or of the connections.                                   *)
C30_BadFrameIsRefused ==
    [][\A p \in Peers, raw \in RawFrames :
        (refusedFrame(raw, p) /\ Message(1, p, raw))
        => /\ Cardinality(out') = 1
           /\ \A f \in out' : f.type = "error" /\ f.to = p
           /\ UNCHANGED <<ratelimit, heartbeat, game, seats, moves, drawOffer, rematchOffer, newRoom,
                          abandonment, archive, hs, conn>>
      ]_vars

(* C37: validateMessage accepts a parsed frame exactly when it is a frame   *)
(* of the protocol: an object whose type is one of the twelve, with that    *)
(* type's required fields valid and no field besides them.  Checked for     *)
(* every frame an open connection can send.                                 *)
C37_ValidIffWellFormed ==
    \A p \in Peers, raw \in RawFrames :
        (conn[p].state \in {"open", "joined"} /\ raw.parses)
        => (validateMessage(raw.data).valid <=> wellFormedFrame(raw.data))

(* C39: a FINISHED room gets at most one rematch room and each attached     *)
(* peer at most one rematch_accepted frame: createRematchGame runs only     *)
(* when no rematch room has been made for this room, and rematch_accepted   *)
(* is sent only by the accept that made it, also when rematch_accept is     *)
(* delivered twice or handled concurrently.                                 *)
C39_OneRematchRoom ==
    [][\A h \in Handlers :
        /\ (hs[h].pc = "ra_session" /\ hs'[h].pc = "ra_seats")
           => newRoom = NoRoom
        /\ (hs[h].pc = "ra_send" /\ hs'[h].pc = "ra_delete")
           => \A k \in Handlers \ {h} :
                ~(hs[k].kind = "rematch_accept"
                  /\ hs[k].pc \in {"ra_session", "ra_seats", "ra_clear", "ra_send",
                                   "ra_delete"})
      ]_vars

(* C40: in an IN_PROGRESS room with no handler in flight, a player whose    *)
(* connected bit is false is covered by an abandonment timer of the room,   *)
(* whatever the order of the disconnects and re-attachments.                *)
C40_DisconnectedHasTimer ==
    ( /\ game.status = "IN_PROGRESS"
      /\ \A h \in Handlers : hs[h].pc = "idle"
      /\ ~seats.whiteConnected \/ ~seats.blackConnected )
    => getAbandonmentInfo # NoTimer

(* C31: a handler emits at most one broadcast from the frame's arrival to   *)
(* its return: with the broadcasts of the step it takes, a handler in       *)
(* flight has emitted one at most.                                          *)
C31_OneBroadcastPerCommand ==
    [][\A h \in Handlers :
        (hs[h].pc # "idle" /\ hs[h].kind \in {"join", "move"} /\ hs'[h] # hs[h])
        => hs[h].sent + broadcasts(out', hs[h].peer) <= 1
      ]_vars

\* handler k has put its move in the log and has not yet broadcast the frame
\* that carries it
moveNotYetSent(k) ==
    /\ hs[k].kind = "move"
    /\ \/ hs[k].pc \in {"m_setfen", "m_post"}
       \/ hs[k].pc \in {"fin_set", "fin_archive"} /\ ~hs[k].flag

(* C32: when a move is accepted (appended to the move log), the move frame  *)
(* of every move accepted before it has been sent to the room, so peers     *)
(* receive move frames in move-log order under every interleaving.          *)
C32_MoveSentBeforeNextAccepted ==
    [][Len(moves') > Len(moves) => \A k \in Handlers : ~moveNotYetSent(k)]_vars

-----------------------------------------------------------------------------
(* Join frames handled concurrently with move frames: a join reads the      *)
(* record, then the move log, while a move is between its writes.           *)

NextRecover ==
    \/ \E h \in Handlers, p \in Peers : MoveStart(h, p)
    \/ \E h \in Handlers, san \in San : MoveGet(h, san)
    \/ \E h \in Handlers : MoveCount(h)
    \/ \E h \in Handlers : MoveDeduct(h)
    \/ \E h \in Handlers : MoveRpush(h)
    \/ \E h \in Handlers : MoveSetFen(h)
    \/ \E h \in Handlers : MovePost(h)
    \/ \E h \in Handlers : MoveClearDraw(h)
    \/ \E h \in Handlers : FinSet(h)
    \/ \E h \in Handlers : FinArchive(h)
    \/ \E h \in Handlers, p \in Peers : JoinFrame(h, p)
    \/ \E h \in Handlers : JoinAbn(h)
    \/ \E h \in Handlers : JoinTimer(h)
    \/ \E h \in Handlers : JoinConn(h)
    \/ \E h \in Handlers : JoinSetConn(h)
    \/ \E h \in Handlers : JoinState(h)
    \/ \E h \in Handlers : JoinSync(h)

SpecRecover == Init /\ [][NextRecover]_vars

(* C33: when a join finds that the last logged fen differs from the         *)
(* currentFen it read, then once it has sent game_state the stored          *)
(* currentFen is the position reached by the longest replayable prefix of   *)
(* the log, which is the position the next move frame is validated against. *)
C33_JoinCorrectsCurrentFen ==
    [][\A h \in Handlers :
        ( /\ hs[h].kind = "join"
          /\ hs[h].pc = "j_state" /\ hs'[h].pc # "j_state"
          /\ moves # <<>>
          /\ moves[Len(moves)].fen # hs[h].snap.currentFen )
        => getGame'.g.currentFen = replayMoves(moves).lastValidFen
      ]_vars

-----------------------------------------------------------------------------
(* sweepOrphanedWaitingGames against the HTTP join route: the pass reads    *)
(* the record and deletes the room in two store calls.                      *)

WAITING_GAME_MAX_AGE_MS == 1

\* const now = Date.now(); scanGameKeys() lists the room while game:{id} exists
OrphanScan(h) ==
    /\ hs[h].pc = "idle"
    /\ game.status # "NONE"
    /\ hs' = [hs EXCEPT ![h] = [IdleH EXCEPT !.pc = "o_get", !.kind = "orphan", !.t = now]]
    /\ out' = {}
    /\ UNCHANGED <<ratelimit, heartbeat, rematchOffer, newRoom, game, seats, moves, drawOffer, abandonment, archive, now,
                   calls, maker, conn, hist>>

\* getGame, the status test and the age test on the pass's own `now`
OrphanGet(h) ==
    /\ hs[h].pc = "o_get"
    /\ IF /\ getGame.exists
          /\ getGame.status = "WAITING"
          /\ hs[h].t - getGame.g.createdAt > WAITING_GAME_MAX_AGE_MS
       THEN Goto(h, "o_delete")
       ELSE Idle(h)
    /\ out' = {}
    /\ UNCHANGED <<ratelimit, heartbeat, rematchOffer, newRoom, game, seats, moves, drawOffer, abandonment, archive, now,
                   calls, maker, conn, hist>>

\* deleteGame(gameId); deleted++
OrphanDelete(h) ==
    /\ hs[h].pc = "o_delete"
    /\ DeleteGame
    /\ Idle(h)
    /\ out' = {}
    /\ UNCHANGED <<ratelimit, heartbeat, newRoom, archive, now, calls, maker, conn, hist>>

NextOrphan ==
    \/ \E c \in Callers : JoinGetGame(c)
    \/ \E c \in Callers : JoinGetSeats(c)
    \/ \E c \in Callers : JoinEval(c)
    \/ Tick
    \/ \E h \in Handlers : OrphanScan(h)
    \/ \E h \in Handlers : OrphanGet(h)
    \/ \E h \in Handlers : OrphanDelete(h)

SpecOrphan == Init /\ [][NextOrphan]_vars

\* C35: the orphan pass deletes a room only if, at the moment of the delete,
\* the room is WAITING and older than WAITING_GAME_MAX_AGE_MS: never a
\* younger WAITING room, never a room a join moved to IN_PROGRESS between the
\* pass's read and its delete.
C35_OrphanDeletesOnlyOldWaiting ==
    [][\A h \in Handlers :
        (hs[h].pc = "o_delete" /\ hs'[h].pc # "o_delete")
        => /\ game.status = "WAITING"
           /\ now - game.createdAt > WAITING_GAME_MAX_AGE_MS
      ]_vars

-----------------------------------------------------------------------------
(* runFullSweep: the three passes started together under Promise.all.  In   *)
(* this specification hs holds the three passes and maker the position of   *)
(* the runFullSweep call; a store call either returns or throws.            *)

MaxRooms == 2

RoomIds == 1..MaxRooms
Passes == {"orphaned", "zombie", "finished"}

\* a pass at its first line: errors = [], deleted / cleaned = 0
StartPass == [pc |-> "scan", ids |-> {}, cleaned |-> 0, errors |-> 0, thrown |-> 0]

InitFullSweep ==
    /\ game = NoGame
    /\ seats = NoSeats
    /\ moves = <<>>
    /\ drawOffer = ""
    /\ rematchOffer = ""
    /\ newRoom = NoRoom
    /\ abandonment = NoTimer
    /\ archive = <<>>
    /\ now = 1
    /\ calls = [c \in Callers |-> IdleCall]
    /\ maker = [kind |-> "runFullSweep", pc |-> "await", errors |-> 0]
    /\ hs = [p \in Passes |-> StartPass]
    /\ conn = <<>>
    /\ out = {}
    /\ hist = NoHist
    /\ ratelimit = NoRate
    /\ heartbeat = <<>>

\* const gameIds = await scanGameKeys(): outside the pass's try block, so a
\* SCAN that throws rejects the pass
PassScan(p) ==
    /\ hs[p].pc = "scan"
    /\ \/ \E ids \in SUBSET RoomIds :
            hs' = [hs EXCEPT ![p] = [@ EXCEPT !.pc = "loop", !.ids = ids]]
       \/ hs' = [hs EXCEPT ![p] = [@ EXCEPT !.pc = "rejected", !.thrown = @ + 1]]
    /\ UNCHANGED <<ratelimit, heartbeat, game, seats, moves, drawOffer, rematchOffer, newRoom, abandonment,
                   archive, now, calls, maker, conn, out, hist>>

\* one turn of the for loop: the room is skipped (continue), cleaned, or a
\* store call throws and the catch block pushes onto errors
PassRoom(p) ==
    /\ hs[p].pc = "loop"
    /\ hs[p].ids # {}
    /\ LET gameId == CHOOSE i \in hs[p].ids : \A j \in hs[p].ids : i <= j
       IN \E outcome \in {"continue", "cleaned", "throws"} :
            hs' = [hs EXCEPT ![p] =
                     [@ EXCEPT !.ids = @ \ {gameId},
                               !.cleaned = IF outcome = "cleaned" THEN @ + 1 ELSE @,
                               !.errors = IF outcome = "throws" THEN @ + 1 ELSE @,
                               !.thrown = IF outcome = "throws" THEN @ + 1 ELSE @]]
    /\ UNCHANGED <<ratelimit, heartbeat, game, seats, moves, drawOffer, rematchOffer, newRoom, abandonment,
                   archive, now, calls, maker, conn, out, hist>>

\* return { deleted / cleaned, errors }
PassReturn(p) ==
    /\ hs[p].pc = "loop"
    /\ hs[p].ids = {}
    /\ hs' = [hs EXCEPT ![p] = [@ EXCEPT !.pc = "fulfilled"]]
    /\ UNCHANGED <<ratelimit, heartbeat, game, seats, moves, drawOffer, rematchOffer, newRoom, abandonment,
                   archive, now, calls, maker, conn, out, hist>>

\* await Promise.all([...]) fulfils once the three passes have: the result
\* concatenates their errors
RunFullSweepReturn ==
    /\ maker.pc = "await"
    /\ \A p \in Passes : hs[p].pc = "fulfilled"
    /\ maker' = [maker EXCEPT !.pc = "returned",
                              !.errors = hs["orphaned"].errors + hs["zombie"].errors
                                         + hs["finished"].errors]
    /\ UNCHANGED <<ratelimit, heartbeat, game, seats, moves, drawOffer, rematchOffer, newRoom, abandonment,
                   archive, now, calls, hs, conn, out, hist>>

\* await Promise.all([...]) rejects as soon as one pass has: runFullSweep
\* throws, and the other passes run on
RunFullSweepReject ==
    /\ maker.pc = "await"
    /\ \E p \in Passes : hs[p].pc = "rejected"
    /\ maker' = [maker EXCEPT !.pc = "rejected"]
    /\ UNCHANGED <<ratelimit, heartbeat, game, seats, moves, drawOffer, rematchOffer, newRoom, abandonment,
                   archive, now, calls, hs, conn, out, hist>>

NextFullSweep ==
    \/ \E p \in Passes : PassScan(p)
    \/ \E p \in Passes : PassRoom(p)
    \/ \E p \in Passes : PassReturn(p)
    \/ RunFullSweepReturn
    \/ RunFullSweepReject

SpecFullSweep == InitFullSweep /\ [][NextFullSweep]_vars

\* C36: a full sweep never aborts: no store call that throws, the key scan
\* included, makes runFullSweep or one of its passes throw; every failure is
\* in the errors list of the result, and every pass goes through all the
\* rooms of its scan.
C36_FullSweepNeverAborts ==
    /\ maker.pc # "rejected"
    /\ \A p \in Passes : hs[p].pc # "rejected"
    /\ maker.pc = "returned"
       => maker.errors = hs["orphaned"].thrown + hs["zombie"].thrown
                         + hs["finished"].thrown

-----------------------------------------------------------------------------
(* checkRateLimit: one Lua script per call, so concurrent calls for a key   *)
(* are these steps interleaved.  Time runs in ticks of 1/TicksPerSecond s;  *)
(* in this specification maker holds the RateLimitConfig of the action.     *)

MaxRequests == 2
MaxWindowSeconds == 2
MaxRateTime == 10
TicksPerSecond == 4

\* GET key: false once the key's expiry has passed
rateCurrent == IF ratelimit.count > 0 /\ now < ratelimit.expiresAt
               THEN ratelimit.count ELSE 0

\* TTL key: the remaining milliseconds as the store reports them in seconds,
\* (ms + 500) / 1000
rateTTL == (((ratelimit.expiresAt - now) * 1000) \div TicksPerSecond + 500) \div 1000

\* the script's reply {allowed, remaining, ttl}
rateLimitScript(maxRequests) ==
    IF rateCurrent = 0 THEN <<1, maxRequests - 1, 0>>
    ELSE IF rateCurrent >= maxRequests THEN <<0, 0, rateTTL>>
    ELSE <<1, maxRequests - rateCurrent - 1, 0>>

\* the RateLimitResult; retryAfterSeconds is <<>> for null
rateLimitResult(result) ==
    [allowed |-> result[1] = 1,
     remaining |-> result[2],
     retryAfterSeconds |-> IF result[3] > 0 THEN <<result[3]>> ELSE <<>>]

InitRateLimit ==
    /\ game = NoGame
    /\ seats = NoSeats
    /\ moves = <<>>
    /\ drawOffer = ""
    /\ rematchOffer = ""
    /\ newRoom = NoRoom
    /\ abandonment = NoTimer
    /\ archive = <<>>
    /\ now = 1
    /\ calls = [c \in Callers |-> IdleCall]
    /\ \E m \in 0..MaxRequests, w \in 1..MaxWindowSeconds :
         maker = [kind |-> "checkRateLimit", pc |-> "done",
                  maxRequests |-> m, windowSeconds |-> w]
    /\ hs = <<>>
    /\ conn = <<>>
    /\ out = {}
    /\ hist = NoHist
    /\ ratelimit = NoRate
    /\ heartbeat = <<>>

\* checkRateLimit(identifier, action, config); hist.accepted counts the calls
\* allowed since the counter was created
CheckRateLimit ==
    /\ LET result == rateLimitScript(maker.maxRequests)
       IN /\ ratelimit' =
                IF rateCurrent = 0
                THEN [count |-> 1, expiresAt |-> now + maker.windowSeconds * TicksPerSecond]
                ELSE IF rateCurrent >= maker.maxRequests THEN ratelimit
                ELSE [ratelimit EXCEPT !.count = @ + 1]
          /\ hist' = [hist EXCEPT !.accepted =
                        IF rateCurrent = 0 THEN 1
                        ELSE IF result[1] = 1 THEN @ + 1 ELSE @]
          /\ out' = {[to |-> "caller", type |-> "RateLimitResult"] @@ rateLimitResult(result)}
    /\ UNCHANGED <<heartbeat, game, seats, moves, drawOffer, rematchOffer, newRoom, abandonment,
                   archive, now, calls, maker, hs, conn>>

RateTick ==
    /\ now < MaxRateTime
    /\ now' = now + 1
    /\ out' = {}
    /\ UNCHANGED <<ratelimit, heartbeat, game, seats, moves, drawOffer, rematchOffer, newRoom,
                   abandonment, archive, calls, maker, hs, conn, hist>>

NextRateLimit == CheckRateLimit \/ RateTick

SpecRateLimit == InitRateLimit /\ [][NextRateLimit]_vars

\* C38: between the call that creates the counter and the counter's expiry
\* at most maxRequests calls are allowed; a denied call carries a positive
\* retryAfterSeconds; and the returned remaining is never negative, for
\* every maxRequests >= 0.
C38_RateLimitBounds ==
    \A r \in out :
        /\ rateCurrent > 0 => hist.accepted <= maker.maxRequests
        /\ ~r.allowed => r.retryAfterSeconds # <<>> /\ r.retryAfterSeconds[1] > 0
        /\ r.remaining >= 0

-----------------------------------------------------------------------------
(* The heartbeat ticker: every 30 s each client whose isAlive is still      *)
(* false is terminated, the others get isAlive = false and a ping; a pong   *)
(* sets isAlive = true.  terminate() closes the socket, whose close event   *)
(* then runs the close handler.                                             *)

MaxMissed == 3

\* wss.clients
Clients == {p \in Peers : conn[p].state \in {"open", "joined", "moved", "elsewhere"}}

\* (variant: the ticker pings without clearing isAlive)
heartbeatClientNoClear(data) ==
    IF ~data.isAlive
    THEN [data EXCEPT !.terminated = TRUE,
                      !.ticks = IF ~data.terminated /\ @ < MaxMissed THEN @ + 1 ELSE @]
    ELSE [data EXCEPT !.ping = TRUE,
                      !.ticks = IF @ < MaxMissed THEN @ + 1 ELSE @]

\* the body of the ticker's loop for one client; ticks counts the ticks
\* since the client's last pong
heartbeatClient(data) ==
    IF ~data.isAlive
    THEN [data EXCEPT !.terminated = TRUE,
                      !.ticks = IF ~data.terminated /\ @ < MaxMissed THEN @ + 1 ELSE @]
    ELSE [data EXCEPT !.isAlive = FALSE, !.ping = TRUE,
                      !.ticks = IF @ < MaxMissed THEN @ + 1 ELSE @]

\* setInterval(() => { for (const client of wss.clients) ... }, 30_000)
HeartbeatInterval ==
    /\ heartbeat' = [p \in Peers |->
                       IF p \in Clients THEN heartbeatClient(heartbeat[p])
                       ELSE heartbeat[p]]
    /\ out' = {[type |-> "ping", to |-> p] :
                 p \in {q \in Clients : heartbeat'[q].ping /\ ~heartbeat'[q].terminated}}
    /\ UNCHANGED <<ratelimit, game, seats, moves, drawOffer, rematchOffer, newRoom, abandonment,
                   archive, now, calls, maker, hs, conn, hist>>

\* ws.on("pong"): the peer answers the ping it was sent
Pong(p) ==
    /\ p \in Clients
    /\ heartbeat[p].ping
    /\ ~heartbeat[p].terminated
    /\ heartbeat' = [heartbeat EXCEPT ![p] =
                       [@ EXCEPT !.isAlive = TRUE, !.ping = FALSE, !.ticks = 0]]
    /\ out' = {}
    /\ UNCHANGED <<ratelimit, game, seats, moves, drawOffer, rematchOffer, newRoom, abandonment,
                   archive, now, calls, maker, hs, conn, hist>>

\* the close event of a terminated socket
HeartbeatClose(p) ==
    /\ heartbeat[p].terminated
    /\ \/ CloseStart(1, p)
       \/ Disconnect(p)

NextHeartbeat ==
    \/ HeartbeatInterval
    \/ \E p \in Peers : Pong(p)
    \/ \E p \in Peers : HeartbeatClose(p)
    \/ \E p \in Peers : Connect(p)
    \/ CloseGet(1)
    \/ CloseOff(1)
    \/ CloseTimer(1)
    \/ CloseDelete(1)

SpecHeartbeat ==
    /\ Init
    /\ [][NextHeartbeat]_vars
    /\ \A p \in Peers : WF_vars(HeartbeatClose(p))
    /\ WF_vars(CloseGet(1) \/ CloseOff(1) \/ CloseTimer(1) \/ CloseDelete(1))

\* C34: at a tick a client is terminated exactly when it has not answered
\* the previous ping, so a client that answers every ping is never
\* terminated and one that stops answering is terminated at the second tick
\* after its last answer; the close handler of a terminated player then
\* runs the disconnect policy (in a room in progress its connected bit is
\* cleared and the timer names its colour).
C34_HeartbeatTerminatesSilentPeer ==
    /\ [][\A p \in Clients :
            (heartbeat'[p].terminated /\ ~heartbeat[p].terminated)
            <=> (HeartbeatInterval /\ heartbeat[p].ping /\ ~heartbeat[p].terminated)
         ]_vars
    /\ [](\A p \in Clients : heartbeat[p].ticks >= 2 => heartbeat[p].terminated)
    /\ \A p \in {"W", "B"} :
         (heartbeat[p].terminated /\ conn[p].state = "joined"
            /\ game.status = "IN_PROGRESS")
         ~> ( /\ ~connectedBit(IF p = "W" THEN "white" ELSE "black")
              /\ abandonment.disconnectedColor = IF p = "W" THEN "white" ELSE "black" )

C34_Witness ==
    /\ heartbeat["W"].terminated
    /\ heartbeat["W"].ticks = 2
    /\ conn["W"].state = "closed"
    /\ game.status = "IN_PROGRESS"
    /\ ~seats.whiteConnected
    /\ abandonment # NoTimer
    /\ heartbeat["B"].ticks = 0 /\ ~heartbeat["B"].terminated /\ conn["B"].state = "joined"

====
